---- MODULE Spec2Model ----
(***************************************************************************)
(* Model of the agnovat-mcp JSON storage engine (JsonStorage) and of the   *)
(* goal service that sits on top of it.                                    *)
(*                                                                         *)
(* One collection file is modelled.  Every `await` of JsonStorage is a     *)
(* suspension point, so every file-system effect is one step of the        *)
(* calling operation and steps of different operations interleave freely.  *)
(* Library calls are modelled by what the pinned versions do                *)
(* (README: fs-extra ^11.3, proper-lockfile ^4.1):                         *)
(*   - lockfile.lock(file, {retries}) resolves the canonical path of the   *)
(*     file once (realpath, ENOENT when the file is missing) and then      *)
(*     tries to create the lock, at most 1 + retries times (ELOCKED).      *)
(*   - fs.move(src, dest, {overwrite: true}) removes dest and then renames *)
(*     src onto dest: two file-system effects.                             *)
(*   - fs.writeJson / fs.readJson serialize and parse the envelope.        *)
(***************************************************************************)
EXTENDS Integers, Sequences, FiniteSets, TLC

\* ------------------------------------------------------------------ bounds
NProcs == 2
NIds == 1
NVals == 2
NWriters == 3
NSeqIds == 2
MaxCalls == 4
NClients == 2
NGoals == 2
MaxNow == 2
MaxEntCalls == 4
NActs == 2
NNotes == 1
MaxLinks == 1
MaxDay == 0
MaxNoteCalls == 3
MaxLinkCalls == 2
MaxLifeCalls == 5
MaxDaysAhead == 15
MaxIdCalls == 2
NRecs == 2

Procs == 1..NProcs
Ids == 1..NIds
Vals == 1..NVals
Writers == 1..NWriters
SeqIds == 1..NSeqIds

\* the processes of the model: the general ones and the writers of the
\* concurrent-write scenario live in the same index space
AllProcs == 1..(IF NProcs > NWriters THEN NProcs ELSE NWriters)
Max(a, b) == IF a > b THEN a ELSE b
AllIds == 1..Max(Max(NIds, NSeqIds), NWriters)

\* ------------------------------------------------------- program constants
Retries == 5
MinTimeout == 100
MaxTimeout == 1000
EditWindowHours == 24
RiskWindowDays == 14
RiskProgress == 50
HoursPerDay == 24

VARIABLES
  enableCache,  \* JsonStorage.enableCache
  file,         \* the collection file: [exists, data], data = serialized records
  tmp,          \* `${filePath}.tmp`
  lockHolder,   \* holder of the proper-lockfile lock, 0 when free
  cache,        \* JsonStorage.cache.get(collection): id -> cached value, 0 = no entry
  pc,           \* position of each in-flight call
  op,           \* the call each process is executing: [kind, id, val]
  base,         \* records a call has read from the file
  attempts,     \* failed lock attempts of the call so far
  backoff,      \* delay (ms) the call waited before its latest lock attempt
  result,       \* outcome of the call
  calls,        \* number of calls made so far
  committed,    \* history: the last complete content installed in the file
  pre,          \* history (sequential caller): the complete content when the latest call was made
  stable,       \* history: value of the last returned write of an id, 0 when a mutation of the id is pending
  expect        \* history: stable[id] when a read(id) was called

VARIABLES
  initialized,  \* JsonStorage.initialized
  cacheMap,     \* JsonStorage.cache.has(collection): the collection has a cache map
  backup,       \* the copy of the collection file in the backup directory: [exists, data]
  atClose,      \* history: [closed, recs], the complete content when close() was last called
  held,         \* history: the complete content when createBackup() was last called
  lcalls,       \* number of initialize, close, createBackup and restoreBackup calls so far
  restored      \* history: "no", or, when restoreBackup copied the latest backup over the file and no
                \* write or delete was called since, "changed" if the file held something else, else "same"

lifeVars == <<initialized, cacheMap, backup, atClose, held, lcalls, restored>>

storeVars == <<enableCache, file, tmp, lockHolder, cache, pc, op, base, attempts,
               backoff, result, calls, committed, pre, stable, expect, lifeVars>>

VARIABLES
  clients,      \* the clients collection: id -> record
  goals,        \* the goals collection: id -> record
  now,          \* the clock read by getCurrentTimestamp
  entRes,       \* outcome of the latest entity-service call
  ecalls        \* number of entity-service calls made so far

entVars == <<clients, goals, now, entRes, ecalls>>

VARIABLES
  stakeholders, \* the stakeholders collection: id -> record
  activities,   \* the activities collection: id -> record
  shiftNotes,   \* the shift_notes collection: id -> record
  windowClosed, \* history: notes an update of which was refused because the edit window expired
  ncalls        \* number of activity and shift-note calls made so far

linkVars == <<stakeholders, activities, shiftNotes, windowClosed, ncalls>>

VARIABLES
  fnIn,         \* the arguments of the latest application of a pure function or query
  fnOut         \* its result: Result(v), NotApplied before the application

fnVars == <<fnIn, fnOut>>

vars == <<storeVars, entVars, linkVars, fnVars>>

\* ------------------------------------------------------------ pure helpers
NoFile == [exists |-> FALSE, data |-> <<>>]
NoOp == [kind |-> "none", id |-> 0, val |-> 0]
NoResult == [status |-> "none", found |-> FALSE, val |-> 0, recs |-> <<>>]

Rec(i, v) == [id |-> i, val |-> v]

\* JSON.stringify / JSON.parse of one record
Stringify(r) == <<r.id, r.val>>
Parse(t) == [id |-> t[1], val |-> t[2]]

\* fs.writeJson(path, fileData): the envelope with the serialized records
WriteJson(records) ==
  [exists |-> TRUE, data |-> [i \in 1..Len(records) |-> Stringify(records[i])]]

\* fs.readJson(path).records
ReadJson(f) == [i \in 1..Len(f.data) |-> Parse(f.data[i])]

\* records.findIndex((r) => r.id === id); 0 stands for -1
FindIndex(records, i) ==
  IF \E k \in 1..Len(records) : records[k].id = i
  THEN CHOOSE k \in 1..Len(records) :
         /\ records[k].id = i
         /\ \A j \in 1..(k - 1) : records[j].id # i
  ELSE 0

\* Upsert that never looks for the existing record
UpsertAppend(records, r) == Append(records, r)

\* write: replace in place when the id exists, else push
Upsert(records, r) ==
  IF FindIndex(records, r.id) > 0
  THEN [records EXCEPT ![FindIndex(records, r.id)] = r]
  ELSE Append(records, r)

\* records.splice(index) without the delete count
SpliceRest(records, k) == SubSeq(records, 1, k - 1)

\* delete: records.splice(index, 1)
Splice(records, k) ==
  SubSeq(records, 1, k - 1) \o SubSeq(records, k + 1, Len(records))

\* delay before retry k+1 of lockfile.lock (k = retries made so far): the
\* retry package doubles minTimeout per retry and caps it at maxTimeout
RetryTimeout(k) ==
  IF MinTimeout * (2 ^ k) > MaxTimeout THEN MaxTimeout ELSE MinTimeout * (2 ^ k)

IdsOf(records) == {records[k].id : k \in 1..Len(records)}

Mutating(q) == op[q].kind \in {"write", "delete"} /\ pc[q] \notin {"idle", "done"}

\* ------------------------------------------------------------------- Init
InitStore ==
  /\ enableCache \in BOOLEAN
  /\ file = WriteJson(<<>>)
  /\ tmp = NoFile
  /\ lockHolder = 0
  /\ cache = [i \in AllIds |-> 0]
  /\ pc = [p \in AllProcs |-> "idle"]
  /\ op = [p \in AllProcs |-> NoOp]
  /\ base = [p \in AllProcs |-> <<>>]
  /\ attempts = [p \in AllProcs |-> 0]
  /\ backoff = [p \in AllProcs |-> 0]
  /\ result = [p \in AllProcs |-> NoResult]
  /\ calls = 0
  /\ committed = <<>>
  /\ pre = <<>>
  /\ stable = [i \in AllIds |-> 0]
  /\ expect = [p \in AllProcs |-> 0]
  /\ initialized = TRUE
  /\ cacheMap = enableCache
  /\ backup = NoFile
  /\ atClose = [closed |-> FALSE, recs |-> <<>>]
  /\ held = <<>>
  /\ lcalls = 0
  /\ restored = "no"

\* the collections of the entity services
ClientIds == 1..NClients
GoalIds == 1..NGoals
Ndis == {1}
Statuses == {"not_started", "in_progress", "achieved", "on_hold", "discontinued"}
Progress == {0, 50, 100}
Undef == "undef"
UndefNum == 0 - 1

NoClient == [exists |-> FALSE, active |-> FALSE, ndis |-> 0]
NoGoal == [exists |-> FALSE, id |-> 0, client |-> 0, status |-> "none", progress |-> 0,
           archived |-> FALSE, achieved_at |-> 0, created_at |-> 0, updated_at |-> 0]

StakeIds == {1}
ActIds == 1..NActs
NoteIds == 1..NNotes
\* shift dates (days; yesterday is day -1) and the texts of a note
ShiftDays == (0 - 1)..MaxDay
Texts == {"t1", "t2"}

NoStakeholder == [exists |-> FALSE, active |-> FALSE]
NoActivity == [exists |-> FALSE, client |-> 0, goal_ids |-> <<>>]
NoNote == [exists |-> FALSE, client |-> 0, shift_date |-> 0, text |-> "none",
           activity_ids |-> <<>>, goals_progress |-> <<>>, updated_at |-> 0]

InitLinkVars ==
  /\ stakeholders = [x \in StakeIds |-> NoStakeholder]
  /\ activities = [a \in ActIds |-> NoActivity]
  /\ shiftNotes = [n \in NoteIds |-> NoNote]
  /\ windowClosed = {}
  /\ ncalls = 0

\* the result v of an application, and the absence of a result
Result(v) == [applied |-> TRUE, value |-> v]
NotApplied == [applied |-> FALSE]

InitFn ==
  /\ fnIn = NotApplied
  /\ fnOut = NotApplied

InitEnt ==
  /\ clients = [c \in ClientIds |-> NoClient]
  /\ goals = [g \in GoalIds |-> NoGoal]
  /\ now = 1
  /\ entRes = [op |-> "none", arg |-> 0, status |-> "none", suggested |-> FALSE]
  /\ ecalls = 0

Init == InitStore /\ InitEnt /\ InitLinkVars /\ InitFn

\* --------------------------------------------------------------- actions
\* a mutation of id i is called: pending reads of i lose their expectation
ClearExpect(i) == [q \in AllProcs |-> IF op[q].kind = "read" /\ op[q].id = i THEN 0 ELSE expect[q]]

\* ensureInitialized() throws: the call is rejected before it touches anything
Refused(p, k, i, v) ==
  /\ pc[p] \in {"idle", "done"}
  /\ calls < MaxCalls
  /\ calls' = calls + 1
  /\ op' = [op EXCEPT ![p] = [kind |-> k, id |-> i, val |-> v]]
  /\ pc' = [pc EXCEPT ![p] = "done"]
  /\ result' = [result EXCEPT ![p] = [NoResult EXCEPT !.status = "EUNINIT"]]
  /\ expect' = [expect EXCEPT ![p] = 0]
  /\ UNCHANGED <<lifeVars, enableCache, file, tmp, lockHolder, cache, base, attempts,
                 backoff, committed, stable>>

\* write(collection, record) is called: ensureInitialized, then lockfile.lock
StartWrite(p, i, v) ==
  IF ~initialized
  THEN Refused(p, "write", i, v)
  ELSE /\ pc[p] \in {"idle", "done"}
       /\ op' = [op EXCEPT ![p] = [kind |-> "write", id |-> i, val |-> v]]
       /\ pc' = [pc EXCEPT ![p] = "lock_realpath"]
       /\ base' = [base EXCEPT ![p] = <<>>]
       /\ attempts' = [attempts EXCEPT ![p] = 0]
       /\ backoff' = [backoff EXCEPT ![p] = 0]
       /\ result' = [result EXCEPT ![p] = NoResult]
       /\ calls < MaxCalls
       /\ calls' = calls + 1
       /\ stable' = [stable EXCEPT ![i] = 0]
       /\ expect' = [ClearExpect(i) EXCEPT ![p] = 0]
       /\ restored' = "no"
       /\ UNCHANGED <<initialized, cacheMap, backup, atClose, held, lcalls, enableCache,
                      file, tmp, lockHolder, cache, committed>>

\* delete(collection, id) is called
StartDelete(p, i) ==
  IF ~initialized
  THEN Refused(p, "delete", i, 0)
  ELSE /\ pc[p] \in {"idle", "done"}
       /\ op' = [op EXCEPT ![p] = [kind |-> "delete", id |-> i, val |-> 0]]
       /\ pc' = [pc EXCEPT ![p] = "lock_realpath"]
       /\ base' = [base EXCEPT ![p] = <<>>]
       /\ attempts' = [attempts EXCEPT ![p] = 0]
       /\ backoff' = [backoff EXCEPT ![p] = 0]
       /\ result' = [result EXCEPT ![p] = NoResult]
       /\ calls < MaxCalls
       /\ calls' = calls + 1
       /\ stable' = [stable EXCEPT ![i] = 0]
       /\ expect' = [ClearExpect(i) EXCEPT ![p] = 0]
       /\ restored' = "no"
       /\ UNCHANGED <<initialized, cacheMap, backup, atClose, held, lcalls, enableCache,
                      file, tmp, lockHolder, cache, committed>>

\* read(collection, id) is called: the cache is consulted synchronously
StartRead(p, i) ==
  IF ~initialized
  THEN Refused(p, "read", i, 0)
  ELSE /\ pc[p] \in {"idle", "done"}
       /\ op' = [op EXCEPT ![p] = [kind |-> "read", id |-> i, val |-> 0]]
       /\ base' = [base EXCEPT ![p] = <<>>]
       /\ attempts' = [attempts EXCEPT ![p] = 0]
       /\ backoff' = [backoff EXCEPT ![p] = 0]
       /\ calls < MaxCalls
       /\ calls' = calls + 1
       /\ expect' = [expect EXCEPT ![p] = stable[i]]
       /\ IF enableCache /\ cache[i] # 0
          THEN /\ pc' = [pc EXCEPT ![p] = "done"]
               /\ result' = [result EXCEPT ![p] =
                    [status |-> "ok", found |-> TRUE, val |-> cache[i], recs |-> <<>>]]
          ELSE /\ pc' = [pc EXCEPT ![p] = "readCollection"]
               /\ result' = [result EXCEPT ![p] = NoResult]
       /\ UNCHANGED <<lifeVars, enableCache, file, tmp, lockHolder, cache, committed, stable>>

\* list / find / count is called: always goes to the file
StartList(p) ==
  IF ~initialized
  THEN Refused(p, "list", 0, 0)
  ELSE /\ pc[p] \in {"idle", "done"}
       /\ op' = [op EXCEPT ![p] = [kind |-> "list", id |-> 0, val |-> 0]]
       /\ pc' = [pc EXCEPT ![p] = "readCollection"]
       /\ base' = [base EXCEPT ![p] = <<>>]
       /\ attempts' = [attempts EXCEPT ![p] = 0]
       /\ backoff' = [backoff EXCEPT ![p] = 0]
       /\ result' = [result EXCEPT ![p] = NoResult]
       /\ calls < MaxCalls
       /\ calls' = calls + 1
       /\ expect' = [expect EXCEPT ![p] = 0]
       /\ UNCHANGED <<lifeVars, enableCache, file, tmp, lockHolder, cache, committed, stable>>

\* readCollection: fs.readJson(filePath) of a reader (no lock taken)
ReadCollection(p) ==
  /\ pc[p] = "readCollection"
  /\ IF ~file.exists
     THEN /\ pc' = [pc EXCEPT ![p] = "done"]
          /\ result' = [result EXCEPT ![p] = [NoResult EXCEPT !.status = "ENOENT"]]
          /\ base' = base
     ELSE /\ base' = [base EXCEPT ![p] = ReadJson(file)]
          /\ IF op[p].kind = "list"
             THEN /\ pc' = [pc EXCEPT ![p] = "done"]
                  /\ result' = [result EXCEPT ![p] =
                       [status |-> "ok", found |-> FALSE, val |-> 0, recs |-> ReadJson(file)]]
             ELSE /\ pc' = [pc EXCEPT ![p] = "read_return"]
                  /\ result' = result
  /\ UNCHANGED <<lifeVars, enableCache, file, tmp, lockHolder, cache, op, attempts, backoff,
                 calls, committed, pre, stable, expect>>

\* read: the continuation after readCollection: find, cache fill, return
ReadReturn(p) ==
  /\ pc[p] = "read_return"
  /\ LET k == FindIndex(base[p], op[p].id) IN
     /\ cache' = IF k > 0 /\ enableCache /\ cacheMap
                 THEN [cache EXCEPT ![op[p].id] = base[p][k].val]
                 ELSE cache
     /\ result' = [result EXCEPT ![p] =
          IF k > 0
          THEN [status |-> "ok", found |-> TRUE, val |-> base[p][k].val, recs |-> <<>>]
          ELSE [status |-> "ok", found |-> FALSE, val |-> 0, recs |-> <<>>]]
  /\ pc' = [pc EXCEPT ![p] = "done"]
  /\ UNCHANGED <<lifeVars, enableCache, file, tmp, lockHolder, op, base, attempts, backoff,
                 calls, committed, pre, stable, expect>>

\* lockfile.lock, first part: realpath of the collection file
LockRealpath(p) ==
  /\ pc[p] = "lock_realpath"
  /\ IF file.exists
     THEN /\ pc' = [pc EXCEPT ![p] = "lock_acquire"]
          /\ result' = result
     ELSE /\ pc' = [pc EXCEPT ![p] = "done"]
          /\ result' = [result EXCEPT ![p] = [NoResult EXCEPT !.status = "ENOENT"]]
  /\ UNCHANGED <<lifeVars, enableCache, file, tmp, lockHolder, cache, op, base, attempts, backoff,
                 calls, committed, pre, stable, expect>>

\* a lock that is taken whether or not it is held
AcquireLockNoCheck(p) ==
  /\ pc[p] = "lock_acquire"
  /\ lockHolder' = p
  /\ pc' = [pc EXCEPT ![p] = "readJson"]
  /\ UNCHANGED <<lifeVars, enableCache, file, tmp, cache, op, base, attempts, backoff, result,
                 calls, committed, pre, stable, expect>>

\* a retry loop that allows one attempt too many
AcquireLockOneMore(p) ==
  /\ pc[p] = "lock_acquire"
  /\ IF lockHolder = 0
     THEN /\ lockHolder' = p
          /\ pc' = [pc EXCEPT ![p] = "readJson"]
          /\ attempts' = [attempts EXCEPT ![p] = 0]
          /\ backoff' = [backoff EXCEPT ![p] = 0]
          /\ result' = result
     ELSE IF attempts[p] <= Retries
     THEN /\ attempts' = [attempts EXCEPT ![p] = attempts[p] + 1]
          /\ backoff' = [backoff EXCEPT ![p] = RetryTimeout(attempts[p])]
          /\ UNCHANGED <<lockHolder, pc, result>>
     ELSE /\ pc' = [pc EXCEPT ![p] = "done"]
          /\ result' = [result EXCEPT ![p] = [NoResult EXCEPT !.status = "ELOCKED"]]
          /\ UNCHANGED <<lockHolder, attempts, backoff>>
  /\ UNCHANGED <<lifeVars, enableCache, file, tmp, cache, op, base, calls, committed, pre,
                 stable, expect>>

\* lockfile.lock, one attempt to create the lock; retried at most Retries times
AcquireLock(p) ==
  /\ pc[p] = "lock_acquire"
  /\ IF lockHolder = 0
     THEN /\ lockHolder' = p
          /\ pc' = [pc EXCEPT ![p] = "readJson"]
          /\ attempts' = [attempts EXCEPT ![p] = 0]
          /\ backoff' = [backoff EXCEPT ![p] = 0]
          /\ result' = result
     ELSE IF attempts[p] < Retries
     THEN /\ attempts' = [attempts EXCEPT ![p] = attempts[p] + 1]
          /\ backoff' = [backoff EXCEPT ![p] = RetryTimeout(attempts[p])]
          /\ UNCHANGED <<lockHolder, pc, result>>
     ELSE /\ pc' = [pc EXCEPT ![p] = "done"]
          /\ result' = [result EXCEPT ![p] = [NoResult EXCEPT !.status = "ELOCKED"]]
          /\ UNCHANGED <<lockHolder, attempts, backoff>>
  /\ UNCHANGED <<lifeVars, enableCache, file, tmp, cache, op, base, calls, committed, pre,
                 stable, expect>>

\* a delete whose not-found return leaves the try block without the finally
ReadJsonLockedNoRelease(p) ==
  /\ pc[p] = "readJson"
  /\ IF ~file.exists
     THEN /\ pc' = [pc EXCEPT ![p] = "release"]
          /\ result' = [result EXCEPT ![p] = [NoResult EXCEPT !.status = "ENOENT"]]
          /\ base' = base
     ELSE /\ base' = [base EXCEPT ![p] = ReadJson(file)]
          /\ IF op[p].kind = "delete" /\ FindIndex(ReadJson(file), op[p].id) = 0
             THEN /\ pc' = [pc EXCEPT ![p] = "done"]
                  /\ result' = [result EXCEPT ![p] =
                       [status |-> "ok", found |-> FALSE, val |-> 0, recs |-> <<>>]]
             ELSE /\ pc' = [pc EXCEPT ![p] = "writeJson"]
                  /\ result' = result
  /\ UNCHANGED <<lifeVars, enableCache, file, tmp, lockHolder, cache, op, attempts, backoff,
                 calls, committed, pre, stable, expect>>

\* write/delete under the lock: fs.readJson(filePath), then the in-memory change
ReadJsonLocked(p) ==
  /\ pc[p] = "readJson"
  /\ IF ~file.exists
     THEN /\ pc' = [pc EXCEPT ![p] = "release"]
          /\ result' = [result EXCEPT ![p] = [NoResult EXCEPT !.status = "ENOENT"]]
          /\ base' = base
     ELSE /\ base' = [base EXCEPT ![p] = ReadJson(file)]
          /\ IF op[p].kind = "delete" /\ FindIndex(ReadJson(file), op[p].id) = 0
             THEN /\ pc' = [pc EXCEPT ![p] = "release"]
                  /\ result' = [result EXCEPT ![p] =
                       [status |-> "ok", found |-> FALSE, val |-> 0, recs |-> <<>>]]
             ELSE /\ pc' = [pc EXCEPT ![p] = "writeJson"]
                  /\ result' = result
  /\ UNCHANGED <<lifeVars, enableCache, file, tmp, lockHolder, cache, op, attempts, backoff,
                 calls, committed, pre, stable, expect>>

\* the records the mutation writes back
NewRecords(p) ==
  IF op[p].kind = "write"
  THEN Upsert(base[p], Rec(op[p].id, op[p].val))
  ELSE Splice(base[p], FindIndex(base[p], op[p].id))

\* a write that sets the cache entry before the file is replaced
WriteJsonTempCachesEarly(p) ==
  /\ pc[p] = "writeJson"
  /\ tmp' = WriteJson(NewRecords(p))
  /\ cache' = IF enableCache /\ cacheMap
              THEN [cache EXCEPT ![op[p].id] = op[p].val]
              ELSE cache
  /\ pc' = [pc EXCEPT ![p] = "move_remove"]
  /\ UNCHANGED <<lifeVars, enableCache, file, lockHolder, op, base, attempts, backoff,
                 result, calls, committed, pre, stable, expect>>

\* fs.writeJson(tempPath, fileData)
WriteJsonTemp(p) ==
  /\ pc[p] = "writeJson"
  /\ tmp' = WriteJson(NewRecords(p))
  /\ pc' = [pc EXCEPT ![p] = "move_remove"]
  /\ UNCHANGED <<lifeVars, enableCache, file, lockHolder, cache, op, base, attempts, backoff,
                 result, calls, committed, pre, stable, expect>>

\* fs.move(tempPath, filePath, {overwrite: true}), first effect: remove(dest)
MoveRemove(p) ==
  /\ pc[p] = "move_remove"
  /\ file' = NoFile
  /\ pc' = [pc EXCEPT ![p] = "move_rename"]
  /\ UNCHANGED <<lifeVars, enableCache, tmp, lockHolder, cache, op, base, attempts, backoff,
                 result, calls, committed, pre, stable, expect>>

\* fs.move, second effect: rename(src, dest)
MoveRename(p) ==
  /\ pc[p] = "move_rename"
  /\ IF tmp.exists
     THEN /\ file' = tmp
          /\ tmp' = NoFile
          /\ committed' = ReadJson(tmp)
          /\ pc' = [pc EXCEPT ![p] = "cache_update"]
          /\ result' = result
     ELSE /\ pc' = [pc EXCEPT ![p] = "release"]
          /\ result' = [result EXCEPT ![p] = [NoResult EXCEPT !.status = "ENOENT"]]
          /\ UNCHANGED <<file, tmp, committed>>
  /\ UNCHANGED <<lifeVars, enableCache, lockHolder, cache, op, base, attempts, backoff,
                 calls, pre, stable, expect>>

\* a continuation that leaves the cache as it was
CacheUpdateSkipped(p) ==
  /\ pc[p] = "cache_update"
  /\ result' = [result EXCEPT ![p] =
       [status |-> "ok", found |-> op[p].kind = "delete", val |-> op[p].val, recs |-> <<>>]]
  /\ pc' = [pc EXCEPT ![p] = "release"]
  /\ UNCHANGED <<lifeVars, enableCache, file, tmp, lockHolder, cache, op, base, attempts, backoff,
                 calls, committed, pre, stable, expect>>

\* the continuation after fs.move: cache set (write) or cache delete (delete)
CacheUpdate(p) ==
  /\ pc[p] = "cache_update"
  /\ cache' = IF enableCache /\ cacheMap
              THEN [cache EXCEPT ![op[p].id] = op[p].val]
              ELSE cache
  /\ result' = [result EXCEPT ![p] =
       [status |-> "ok", found |-> op[p].kind = "delete", val |-> op[p].val, recs |-> <<>>]]
  /\ pc' = [pc EXCEPT ![p] = "release"]
  /\ UNCHANGED <<lifeVars, enableCache, file, tmp, lockHolder, op, base, attempts, backoff,
                 calls, committed, pre, stable, expect>>

\* finally { await release() }, after which the call returns or rethrows
Release(p) ==
  /\ pc[p] = "release"
  /\ lockHolder' = 0
  /\ pc' = [pc EXCEPT ![p] = "done"]
  /\ stable' = IF /\ op[p].kind = "write"
                  /\ result[p].status = "ok"
                  /\ \A q \in AllProcs \ {p} : ~(Mutating(q) /\ op[q].id = op[p].id)
               THEN [stable EXCEPT ![op[p].id] = op[p].val]
               ELSE stable
  /\ UNCHANGED <<lifeVars, enableCache, file, tmp, cache, op, base, attempts, backoff,
                 result, calls, committed, pre, expect>>

\* a file-system call of the locked section rejects: fs.readJson because the
\* file cannot be parsed, the others with an I/O error
IOFault(p) ==
  /\ pc[p] \in {"readJson", "writeJson", "move_remove", "move_rename"}
  /\ pc' = [pc EXCEPT ![p] = "release"]
  /\ result' = [result EXCEPT ![p] =
       [NoResult EXCEPT !.status = IF pc[p] = "readJson" THEN "EPARSE" ELSE "EIO"]]
  /\ UNCHANGED <<lifeVars, enableCache, file, tmp, lockHolder, cache, op, base, attempts, backoff,
                 calls, committed, pre, stable, expect>>

Step(p) ==
  \/ LockRealpath(p)
  \/ AcquireLock(p)
  \/ ReadJsonLocked(p)
  \/ WriteJsonTemp(p)
  \/ MoveRemove(p)
  \/ MoveRename(p)
  \/ CacheUpdate(p)
  \/ Release(p)

\* a caller makes a call on an id of I or one of its reads proceeds; h is the value the
\* history variable `pre` takes when a call is made
Call(p, I, h) ==
  \/ \E i \in I, v \in Vals : StartWrite(p, i, v) /\ pre' = h
  \/ \E i \in I : StartDelete(p, i) /\ pre' = h
  \/ \E i \in I : StartRead(p, i) /\ pre' = h
  \/ StartList(p) /\ pre' = h
  \/ ReadCollection(p)
  \/ ReadReturn(p)

\* calls issued by NProcs concurrent callers on one JsonStorage instance
Next ==
  /\ \E p \in Procs : Call(p, Ids, pre) \/ Step(p)
  /\ UNCHANGED <<entVars, linkVars, fnVars>>

Spec == Init /\ [][Next]_vars

\* the same, with file-system calls of the locked section allowed to fail
NextFault ==
  /\ \E p \in Procs : Call(p, Ids, pre) \/ Step(p) \/ IOFault(p)
  /\ UNCHANGED <<entVars, linkVars, fnVars>>

SpecFault == Init /\ [][NextFault]_vars

\* one caller that awaits each call before making the next; `pre` records the
\* complete content of the file at each call
SeqProcs == {1}

NextSeq ==
  /\ \E p \in SeqProcs : Call(p, SeqIds, committed) \/ Step(p)
  /\ UNCHANGED <<entVars, linkVars, fnVars>>

SpecSeq == Init /\ [][NextSeq]_vars

\* NWriters write calls with distinct new ids started together (Promise.all)
InitWriters ==
  /\ enableCache \in BOOLEAN
  /\ file = WriteJson(<<>>)
  /\ tmp = NoFile
  /\ lockHolder = 0
  /\ cache = [i \in AllIds |-> 0]
  /\ pc = [p \in AllProcs |-> IF p \in Writers THEN "lock_realpath" ELSE "idle"]
  /\ op = [p \in AllProcs |-> IF p \in Writers THEN [kind |-> "write", id |-> p, val |-> 1] ELSE NoOp]
  /\ base = [p \in AllProcs |-> <<>>]
  /\ attempts = [p \in AllProcs |-> 0]
  /\ backoff = [p \in AllProcs |-> 0]
  /\ result = [p \in AllProcs |-> NoResult]
  /\ calls = NWriters
  /\ committed = <<>>
  /\ pre = <<>>
  /\ stable = [i \in AllIds |-> 0]
  /\ expect = [p \in AllProcs |-> 0]
  /\ initialized = TRUE
  /\ cacheMap = enableCache
  /\ backup = NoFile
  /\ atClose = [closed |-> FALSE, recs |-> <<>>]
  /\ held = <<>>
  /\ lcalls = 0
  /\ restored = "no"
  /\ InitEnt
  /\ InitLinkVars
  /\ InitFn

WriterStep(p) == Step(p) /\ UNCHANGED <<entVars, linkVars, fnVars>>

NextWriters == \E p \in Writers : WriterStep(p)

\* the event loop runs every pending continuation and every I/O completes
SpecWriters ==
  InitWriters /\ [][NextWriters]_vars /\ \A p \in Writers : WF_vars(WriterStep(p))

\* ------------------------------------------- lifecycle, backup and restore
\* the outcome of a call that has returned
Returned(p, st) == [result EXCEPT ![p] = [NoResult EXCEPT !.status = st]]

\* a lifecycle call k is made by p
LifeCall(p, k) ==
  /\ pc[p] \in {"idle", "done"}
  /\ calls + lcalls < MaxLifeCalls
  /\ lcalls' = lcalls + 1
  /\ op' = [op EXCEPT ![p] = [kind |-> k, id |-> 0, val |-> 0]]
  /\ expect' = [expect EXCEPT ![p] = 0]

\* the value stored under id i in records, 0 when there is none
ValueOf(records, i) ==
  IF FindIndex(records, i) > 0 THEN records[FindIndex(records, i)].val ELSE 0

\* initialize() is called: returns at once when already initialized
StartInitialize(p) ==
  /\ LifeCall(p, "initialize")
  /\ IF initialized
     THEN /\ pc' = [pc EXCEPT ![p] = "done"]
          /\ result' = Returned(p, "ok")
     ELSE /\ pc' = [pc EXCEPT ![p] = "init_pathExists"]
          /\ result' = Returned(p, "none")
  /\ UNCHANGED <<enableCache, file, tmp, lockHolder, cache, base, attempts, backoff,
                 calls, committed, pre, stable, initialized, cacheMap, backup, atClose, held, restored>>

\* initialize that writes the empty collection without looking for the file
InitPathExistsNotAsked(p) ==
  /\ pc[p] = "init_pathExists"
  /\ pc' = [pc EXCEPT ![p] = "init_writeJson"]
  /\ UNCHANGED <<lifeVars, enableCache, file, tmp, lockHolder, cache, op, base, attempts,
                 backoff, result, calls, committed, pre, stable, expect>>

\* initialize: fs.pathExists(filePath)
InitPathExists(p) ==
  /\ pc[p] = "init_pathExists"
  /\ pc' = [pc EXCEPT ![p] = IF file.exists THEN "init_cache" ELSE "init_writeJson"]
  /\ UNCHANGED <<lifeVars, enableCache, file, tmp, lockHolder, cache, op, base, attempts,
                 backoff, result, calls, committed, pre, stable, expect>>

\* initialize: fs.writeJson(filePath, emptyFile)
InitWriteJson(p) ==
  /\ pc[p] = "init_writeJson"
  /\ file' = WriteJson(<<>>)
  /\ committed' = <<>>
  /\ pc' = [pc EXCEPT ![p] = "init_cache"]
  /\ UNCHANGED <<lifeVars, enableCache, tmp, lockHolder, cache, op, base, attempts,
                 backoff, result, calls, pre, stable, expect>>

\* initialize that leaves the storage uninitialized
InitCacheNoFlag(p) ==
  /\ pc[p] = "init_cache"
  /\ cacheMap' = (enableCache \/ cacheMap)
  /\ cache' = IF enableCache THEN [i \in AllIds |-> 0] ELSE cache
  /\ initialized' = initialized
  /\ pc' = [pc EXCEPT ![p] = "done"]
  /\ result' = Returned(p, "ok")
  /\ UNCHANGED <<enableCache, file, tmp, lockHolder, op, base, attempts, backoff,
                 calls, committed, pre, stable, expect, backup, atClose, held, lcalls, restored>>

\* initialize: this.cache.set(collection, new Map()); this.initialized = true
InitCache(p) ==
  /\ pc[p] = "init_cache"
  /\ cacheMap' = (enableCache \/ cacheMap)
  /\ cache' = IF enableCache THEN [i \in AllIds |-> 0] ELSE cache
  /\ initialized' = TRUE
  /\ pc' = [pc EXCEPT ![p] = "done"]
  /\ result' = Returned(p, "ok")
  /\ UNCHANGED <<enableCache, file, tmp, lockHolder, op, base, attempts, backoff,
                 calls, committed, pre, stable, expect, backup, atClose, held, lcalls, restored>>

\* close(): this.cache.clear(); this.initialized = false
Close(p) ==
  /\ LifeCall(p, "close")
  /\ cache' = [i \in AllIds |-> 0]
  /\ cacheMap' = FALSE
  /\ initialized' = FALSE
  /\ atClose' = [closed |-> TRUE, recs |-> committed]
  /\ pc' = [pc EXCEPT ![p] = "done"]
  /\ result' = Returned(p, "ok")
  /\ UNCHANGED <<enableCache, file, tmp, lockHolder, base, attempts, backoff,
                 calls, committed, pre, stable, backup, held, restored>>

\* a lifecycle-counted call that ensureInitialized() rejects
RefusedLife(p, k) ==
  /\ LifeCall(p, k)
  /\ pc' = [pc EXCEPT ![p] = "done"]
  /\ result' = Returned(p, "EUNINIT")
  /\ UNCHANGED <<enableCache, file, tmp, lockHolder, cache, base, attempts, backoff,
                 calls, committed, pre, stable, initialized, cacheMap, backup, atClose, held, restored>>

\* createBackup() is called
StartBackup(p) ==
  IF ~initialized
  THEN RefusedLife(p, "createBackup")
  ELSE /\ LifeCall(p, "createBackup")
       /\ pc' = [pc EXCEPT ![p] = "backup_copy"]
       /\ result' = Returned(p, "none")
       /\ held' = committed
       /\ restored' = "no"
       /\ UNCHANGED <<enableCache, file, tmp, lockHolder, cache, base, attempts, backoff,
                      calls, committed, pre, stable, initialized, cacheMap, backup, atClose>>

\* createBackup: fs.copy(sourcePath, destPath)
BackupCopy(p) ==
  /\ pc[p] = "backup_copy"
  /\ pc' = [pc EXCEPT ![p] = "done"]
  /\ IF file.exists
     THEN /\ backup' = file
          /\ result' = Returned(p, "ok")
     ELSE /\ backup' = backup
          /\ result' = Returned(p, "ENOENT")
  /\ UNCHANGED <<enableCache, file, tmp, lockHolder, cache, op, base, attempts, backoff,
                 calls, committed, pre, stable, expect, initialized, cacheMap, atClose,
                 held, lcalls, restored>>

\* restoreBackup(backupPath) is called
StartRestore(p) ==
  IF ~initialized
  THEN RefusedLife(p, "restoreBackup")
  ELSE /\ LifeCall(p, "restoreBackup")
       /\ pc' = [pc EXCEPT ![p] = "restore_pathExists"]
       /\ result' = Returned(p, "none")
       /\ UNCHANGED <<enableCache, file, tmp, lockHolder, cache, base, attempts, backoff,
                      calls, committed, pre, stable, initialized, cacheMap, backup, atClose,
                      held, restored>>

\* restoreBackup: fs.pathExists(sourcePath)
RestorePathExists(p) ==
  /\ pc[p] = "restore_pathExists"
  /\ pc' = [pc EXCEPT ![p] = IF backup.exists THEN "restore_copy" ELSE "restore_cache"]
  /\ UNCHANGED <<lifeVars, enableCache, file, tmp, lockHolder, cache, op, base, attempts,
                 backoff, result, calls, committed, pre, stable, expect>>

\* restoreBackup: fs.copy(sourcePath, destPath, {overwrite: true}); no lock is taken
RestoreCopy(p) ==
  /\ pc[p] = "restore_copy"
  /\ file' = backup
  /\ committed' = ReadJson(backup)
  /\ stable' = [i \in AllIds |-> ValueOf(ReadJson(backup), i)]
  /\ pc' = [pc EXCEPT ![p] = "restore_cache"]
  /\ restored' = IF ReadJson(file) = ReadJson(backup) THEN "same" ELSE "changed"
  /\ UNCHANGED <<enableCache, tmp, lockHolder, cache, op, base, attempts, backoff, result,
                 calls, pre, expect, initialized, cacheMap, backup, atClose, held, lcalls>>

\* restoreBackup that keeps the cache
RestoreCacheKept(p) ==
  /\ pc[p] = "restore_cache"
  /\ cache' = cache
  /\ cacheMap' = cacheMap
  /\ pc' = [pc EXCEPT ![p] = "done"]
  /\ result' = Returned(p, "ok")
  /\ UNCHANGED <<enableCache, file, tmp, lockHolder, op, base, attempts, backoff,
                 calls, committed, pre, stable, expect, initialized, backup, atClose,
                 held, lcalls, restored>>

\* restoreBackup: this.cache.clear() and a new Map per collection
RestoreCache(p) ==
  /\ pc[p] = "restore_cache"
  /\ cache' = IF enableCache THEN [i \in AllIds |-> 0] ELSE cache
  /\ cacheMap' = (enableCache \/ cacheMap)
  /\ pc' = [pc EXCEPT ![p] = "done"]
  /\ result' = Returned(p, "ok")
  /\ UNCHANGED <<enableCache, file, tmp, lockHolder, op, base, attempts, backoff,
                 calls, committed, pre, stable, expect, initialized, backup, atClose,
                 held, lcalls, restored>>

Life(p) ==
  \/ StartInitialize(p)
  \/ InitPathExists(p)
  \/ InitWriteJson(p)
  \/ InitCache(p)
  \/ Close(p)
  \/ StartBackup(p)
  \/ BackupCopy(p)
  \/ StartRestore(p)
  \/ RestorePathExists(p)
  \/ RestoreCopy(p)
  \/ RestoreCache(p)

\* the ids the caller of the lifecycle scenario uses
LifeIds == {1}

\* the state after construction: not initialized; the data directory is new or holds
\* the collection file an earlier run left
InitLife ==
  /\ enableCache \in BOOLEAN
  /\ file \in {NoFile} \cup {WriteJson(<<Rec(i, v)>>) : i \in LifeIds, v \in Vals}
  /\ tmp = NoFile
  /\ lockHolder = 0
  /\ cache = [i \in AllIds |-> 0]
  /\ pc = [p \in AllProcs |-> "idle"]
  /\ op = [p \in AllProcs |-> NoOp]
  /\ base = [p \in AllProcs |-> <<>>]
  /\ attempts = [p \in AllProcs |-> 0]
  /\ backoff = [p \in AllProcs |-> 0]
  /\ result = [p \in AllProcs |-> NoResult]
  /\ calls = 0
  /\ committed = ReadJson(file)
  /\ pre = <<>>
  /\ stable = [i \in AllIds |-> ValueOf(ReadJson(file), i)]
  /\ expect = [p \in AllProcs |-> 0]
  /\ initialized = FALSE
  /\ cacheMap = FALSE
  /\ backup = NoFile
  /\ atClose = [closed |-> FALSE, recs |-> <<>>]
  /\ held = <<>>
  /\ lcalls = 0
  /\ restored = "no"
  /\ InitEnt
  /\ InitLinkVars
  /\ InitFn

\* one caller that awaits each call, over the whole life of the storage
NextLife ==
  /\ \E p \in SeqProcs :
       \/ /\ pc[p] \in {"idle", "done"} => calls + lcalls < MaxLifeCalls
          /\ Call(p, LifeIds, committed)
       \/ Step(p)
       \/ Life(p)
  /\ UNCHANGED <<entVars, linkVars, fnVars>>

SpecLife == InitLife /\ [][NextLife]_vars

\* the same caller, with file-system calls of the locked section allowed to fail
NextCache ==
  /\ \E p \in SeqProcs :
       \/ /\ pc[p] \in {"idle", "done"} => calls + lcalls < MaxLifeCalls
          /\ Call(p, LifeIds, committed)
       \/ Step(p)
       \/ Life(p)
       \/ IOFault(p)
  /\ UNCHANGED <<entVars, linkVars, fnVars>>

SpecCache == InitLife /\ [][NextCache]_vars

\* ======================================================== entity services
\* The handlers of tools/clients.ts and tools/goals.ts, called one at a time
\* on a storage whose read returns what was written (the sequential
\* behaviour of JsonStorage); each handler is one step.  entRes records the
\* latest call: its handler, its id argument and its outcome.
\* `suggested` tells that updateGoalProgress took the status from suggestGoalStatus
Outcome(o, a, st) == [op |-> o, arg |-> a, status |-> st, suggested |-> FALSE]

\* one more call is made
Called == ecalls < MaxEntCalls /\ ecalls' = ecalls + 1

\* uuidv4(): an id that is not in the collection
FreshId(tbl, S) == CHOOSE i \in S : ~tbl[i].exists /\ \A j \in S : j < i => tbl[j].exists

\* alignment check that accepts every combination
AlignmentAlwaysValid(status, progressPercentage) == TRUE

\* validateGoalProgressAlignment(status, progressPercentage).valid
validateGoalProgressAlignment(status, progressPercentage) ==
  IF status = "achieved" /\ progressPercentage < 100 THEN FALSE
  ELSE IF status = "not_started" /\ progressPercentage > 0 THEN FALSE
  ELSE TRUE

\* createClient(storage, {ndis_number: n}); n = 0 when no number is given
createClient(n) ==
  /\ Called
  /\ \E c \in ClientIds : ~clients[c].exists
  /\ IF n # 0 /\ \E c \in ClientIds : clients[c].exists /\ clients[c].ndis = n /\ clients[c].active
     THEN /\ entRes' = Outcome("createClient", n, "conflict")
          /\ clients' = clients
     ELSE /\ clients' = [clients EXCEPT ![FreshId(clients, ClientIds)] =
                           [exists |-> TRUE, active |-> TRUE, ndis |-> n]]
          /\ entRes' = Outcome("createClient", n, "ok")
  /\ UNCHANGED <<goals, now>>

\* updateClient(storage, c, {ndis_number: n, active: act}); n = 0 and
\* act = Undef when the field is not given
updateClient(c, n, act) ==
  /\ Called
  /\ IF ~clients[c].exists
     THEN /\ entRes' = Outcome("updateClient", c, "not_found")
          /\ clients' = clients
     ELSE IF /\ n # 0
             /\ n # clients[c].ndis
             /\ \E d \in ClientIds :
                  d # c /\ clients[d].exists /\ clients[d].ndis = n /\ clients[d].active
     THEN /\ entRes' = Outcome("updateClient", c, "conflict")
          /\ clients' = clients
     ELSE /\ clients' = [clients EXCEPT
                           ![c].ndis = IF n # 0 THEN n ELSE clients[c].ndis,
                           ![c].active = IF act # Undef THEN act = "true" ELSE clients[c].active]
          /\ entRes' = Outcome("updateClient", c, "ok")
  /\ UNCHANGED <<goals, now>>

\* deactivateClient that does not look at the goals of the client
deactivateClientNoGoalCheck(c) ==
  /\ Called
  /\ IF ~clients[c].exists
     THEN /\ entRes' = Outcome("deactivateClient", c, "not_found")
          /\ clients' = clients
     ELSE /\ clients' = [clients EXCEPT ![c].active = FALSE]
          /\ entRes' = Outcome("deactivateClient", c, "ok")
  /\ UNCHANGED <<goals, now>>

\* deactivateClient(storage, c)
deactivateClient(c) ==
  /\ Called
  /\ IF ~clients[c].exists
     THEN /\ entRes' = Outcome("deactivateClient", c, "not_found")
          /\ clients' = clients
     ELSE IF \E g \in GoalIds : goals[g].exists /\ goals[g].client = c /\ ~goals[g].archived
     THEN /\ entRes' = Outcome("deactivateClient", c, "conflict")
          /\ clients' = clients
     ELSE /\ clients' = [clients EXCEPT ![c].active = FALSE]
          /\ entRes' = Outcome("deactivateClient", c, "ok")
  /\ UNCHANGED <<goals, now>>

\* createGoal that does not look at the active flag of the client
createGoalNoActiveCheck(c) ==
  /\ Called
  /\ \E g \in GoalIds : ~goals[g].exists
  /\ IF ~clients[c].exists
     THEN /\ entRes' = Outcome("createGoal", c, "not_found")
          /\ goals' = goals
     ELSE /\ goals' = [goals EXCEPT ![FreshId(goals, GoalIds)] =
                         [exists |-> TRUE, id |-> FreshId(goals, GoalIds), client |-> c,
                          status |-> "not_started",
                          progress |-> 0, archived |-> FALSE, achieved_at |-> 0,
                          created_at |-> now, updated_at |-> now]]
          /\ entRes' = Outcome("createGoal", c, "ok")
  /\ UNCHANGED <<clients, now>>

\* createGoal(storage, {client_id: c, ...})
createGoal(c) ==
  /\ Called
  /\ \E g \in GoalIds : ~goals[g].exists
  /\ IF ~clients[c].exists
     THEN /\ entRes' = Outcome("createGoal", c, "not_found")
          /\ goals' = goals
     ELSE IF ~clients[c].active
     THEN /\ entRes' = Outcome("createGoal", c, "conflict")
          /\ goals' = goals
     ELSE /\ goals' = [goals EXCEPT ![FreshId(goals, GoalIds)] =
                         [exists |-> TRUE, id |-> FreshId(goals, GoalIds), client |-> c,
                          status |-> "not_started",
                          progress |-> 0, archived |-> FALSE, achieved_at |-> 0,
                          created_at |-> now, updated_at |-> now]]
          /\ entRes' = Outcome("createGoal", c, "ok")
  /\ UNCHANGED <<clients, now>>

\* suggestGoalStatus without the achieved case
suggestGoalStatusNeverAchieved(progressPercentage) ==
  IF progressPercentage = 0 THEN "not_started" ELSE "in_progress"

\* suggestGoalStatus(progressPercentage)
suggestGoalStatus(progressPercentage) ==
  IF progressPercentage = 0 THEN "not_started"
  ELSE IF progressPercentage = 100 THEN "achieved"
  ELSE "in_progress"

\* updateGoalProgress(storage, {goal_id: g, status: st, progress_percentage: pr})
updateGoalProgress(g, st, pr) ==
  /\ Called
  /\ IF ~goals[g].exists
     THEN /\ entRes' = Outcome("updateGoalProgress", g, "not_found")
          /\ goals' = goals
     ELSE LET goal == goals[g]
              newProgress == IF pr # UndefNum THEN pr ELSE goal.progress
              suggest == pr # UndefNum /\ st = Undef
              newStatus == IF suggest
                           THEN suggestGoalStatus(newProgress)
                           ELSE IF st # Undef THEN st ELSE goal.status
              achievedAt == IF newStatus = "achieved" /\ goal.status # "achieved"
                            THEN now ELSE goal.achieved_at
          IN IF ~validateGoalProgressAlignment(newStatus, newProgress)
             THEN /\ entRes' = [Outcome("updateGoalProgress", g, "validation")
                                  EXCEPT !.suggested = suggest]
                  /\ goals' = goals
             ELSE /\ goals' = [goals EXCEPT ![g] =
                                 [goal EXCEPT !.status = newStatus,
                                              !.progress = newProgress,
                                              !.achieved_at = achievedAt,
                                              !.updated_at = now]]
                  /\ entRes' = [Outcome("updateGoalProgress", g, "ok")
                                  EXCEPT !.suggested = suggest]
  /\ UNCHANGED <<clients, now>>

\* storage.write(collection, record): the record is stored under record.id
StoreRecord(tbl, record) == [tbl EXCEPT ![record.id] = record]

\* keys a caller may add to the input of update_goal next to the fields of the schema
ExtraKeys == [id : GoalIds \cup {UndefNum}, created_at : {UndefNum, 0}]

\* a schema that lets unknown keys through
updateGoalSchemaPassthrough(input) == input

\* validateWithSchema(updateGoalSchema, input): zod's parse drops the keys the schema
\* does not name
updateGoalSchema(input) == [input EXCEPT !.id = UndefNum, !.created_at = UndefNum]

\* updateGoal(storage, g, input)
updateGoalInput(g, input) ==
  /\ Called
  /\ LET data == updateGoalSchema(input)
       IN
       IF ~goals[g].exists
       THEN /\ entRes' = Outcome("updateGoal", g, "not_found")
            /\ goals' = goals
       ELSE IF /\ data.status # Undef
               /\ data.progress # UndefNum
               /\ ~validateGoalProgressAlignment(data.status, data.progress)
       THEN /\ entRes' = Outcome("updateGoal", g, "validation")
            /\ goals' = goals
       ELSE LET goal == goals[g]
                achievedAt ==
                  IF data.status = "achieved" /\ goal.status # "achieved" THEN now
                  ELSE IF data.status # "achieved" /\ goal.status = "achieved" THEN 0
                  ELSE goal.achieved_at
                updatedGoal ==
                  [goal EXCEPT
                     !.id = IF data.id # UndefNum THEN data.id ELSE goal.id,
                     !.created_at = IF data.created_at # UndefNum
                                    THEN data.created_at ELSE goal.created_at,
                     !.status = IF data.status # Undef THEN data.status ELSE goal.status,
                     !.progress = IF data.progress # UndefNum
                                  THEN data.progress ELSE goal.progress,
                     !.archived = IF data.archived # Undef
                                  THEN data.archived = "true" ELSE goal.archived,
                     !.achieved_at = achievedAt,
                     !.updated_at = now]
            IN /\ goals' = StoreRecord(goals, updatedGoal)
               /\ entRes' = Outcome("updateGoal", g, "ok")
  /\ UNCHANGED <<clients, now>>

\* updateGoal(storage, g, {status: st, progress_percentage: pr, archived: ar})
updateGoal(g, st, pr, ar) ==
  updateGoalInput(g, [status |-> st, progress |-> pr, archived |-> ar,
                      id |-> UndefNum, created_at |-> UndefNum])

\* an archive that deletes the record
archiveGoalDeletes(g) ==
  /\ Called
  /\ IF ~goals[g].exists
     THEN /\ entRes' = Outcome("archiveGoal", g, "not_found")
          /\ goals' = goals
     ELSE /\ goals' = [goals EXCEPT ![g] = NoGoal]
          /\ entRes' = Outcome("archiveGoal", g, "ok")
  /\ UNCHANGED <<clients, now>>

\* archiveGoal(storage, g)
archiveGoal(g) ==
  /\ Called
  /\ IF ~goals[g].exists
     THEN /\ entRes' = Outcome("archiveGoal", g, "not_found")
          /\ goals' = goals
     ELSE /\ goals' = [goals EXCEPT ![g].archived = TRUE, ![g].updated_at = now]
          /\ entRes' = Outcome("archiveGoal", g, "ok")
  /\ UNCHANGED <<clients, now>>

\* time passes between two calls
Tick ==
  /\ now < MaxNow
  /\ now' = now + 1
  /\ UNCHANGED <<clients, goals, entRes, ecalls>>

NextEntities ==
  /\ \/ \E n \in Ndis \cup {0} : createClient(n)
     \/ \E c \in ClientIds, n \in Ndis \cup {0}, act \in {Undef, "true", "false"} :
          updateClient(c, n, act)
     \/ \E c \in ClientIds : deactivateClient(c)
     \/ \E c \in ClientIds : createGoal(c)
     \/ \E g \in GoalIds, st \in Statuses \cup {Undef}, pr \in Progress \cup {UndefNum} :
          updateGoalProgress(g, st, pr)
     \/ \E g \in GoalIds, st \in Statuses \cup {Undef}, pr \in Progress \cup {UndefNum},
           ar \in {Undef, "true", "false"} : updateGoal(g, st, pr, ar)
     \/ \E g \in GoalIds : archiveGoal(g)
     \/ Tick
  /\ UNCHANGED <<storeVars, linkVars, fnVars>>

InitEntities == Init /\ enableCache

SpecEntities == InitEntities /\ [][NextEntities]_vars

\* a store that holds one active client and one goal of that client, as left by
\* createClient and createGoal
InitIds ==
  /\ InitStore
  /\ enableCache
  /\ InitLinkVars
  /\ InitFn
  /\ clients = [c \in ClientIds |->
                  IF c = 1 THEN [exists |-> TRUE, active |-> TRUE, ndis |-> 0] ELSE NoClient]
  /\ goals = [g \in GoalIds |->
                IF g = 1
                THEN [exists |-> TRUE, id |-> 1, client |-> 1, status |-> "not_started",
                      progress |-> 0, archived |-> FALSE, achieved_at |-> 0,
                      created_at |-> 1, updated_at |-> 1]
                ELSE NoGoal]
  /\ now = 1
  /\ entRes = Outcome("createGoal", 1, "ok")
  /\ ecalls = 0

\* at most MaxIdCalls calls; the input of update_goal may carry keys the schema does
\* not name
NextIds ==
  /\ ecalls < MaxIdCalls
  /\ \/ \E n \in Ndis \cup {0} : createClient(n)
     \/ \E c \in ClientIds, n \in Ndis \cup {0}, act \in {Undef, "true", "false"} :
          updateClient(c, n, act)
     \/ \E c \in ClientIds : deactivateClient(c)
     \/ \E c \in ClientIds : createGoal(c)
     \/ \E g \in GoalIds, st \in Statuses \cup {Undef}, pr \in Progress \cup {UndefNum} :
          updateGoalProgress(g, st, pr)
     \/ \E g \in GoalIds, st \in Statuses \cup {Undef}, pr \in Progress \cup {UndefNum},
           ar \in {Undef, "true", "false"}, extra \in ExtraKeys :
          updateGoalInput(g, [status |-> st, progress |-> pr, archived |-> ar,
                              id |-> extra.id, created_at |-> extra.created_at])
     \/ \E g \in GoalIds : archiveGoal(g)
     \/ Tick
  /\ UNCHANGED <<storeVars, linkVars, fnVars>>

SpecIds == InitIds /\ [][NextIds]_vars

\* ============================================ activities and shift notes
\* The handlers of tools/activities.ts and tools/shift-notes.ts, called one at
\* a time.  Ids of a collection are the slots of its table; 0 is an id that
\* is not stored.  Time is counted in hours; the local midnight of day d is
\* hour 24 * d.
NoteCalled == ncalls < MaxNoteCalls /\ ncalls' = ncalls + 1

\* arrays of at most MaxLinks ids of S
Lists(S) == UNION {[1..n -> S] : n \in 0..MaxLinks}

\* an optional array field of an update: given with its ids, or not given
NotGiven == [given |-> FALSE, ids |-> <<>>]
Given(l) == [given |-> TRUE, ids |-> l]
Optional(S) == {NotGiven} \cup {Given(l) : l \in Lists(S)}

\* storage.read(collection, i) !== null
Stored(tbl, i) == i \in DOMAIN tbl /\ tbl[i].exists

\* link validation that checks existence only
LinkCheckExistsOnly(ids, tbl, c) ==
  IF \E k \in 1..Len(ids) : ~Stored(tbl, ids[k]) THEN "not_found" ELSE "ok"

\* the loop `for (const id of ids)` of the link validation: the first id that
\* is not stored throws not-found, the first that belongs to another client
\* throws a conflict
LinkCheck(ids, tbl, c) ==
  LET bad == {k \in 1..Len(ids) : ~Stored(tbl, ids[k]) \/ tbl[ids[k]].client # c}
      first == CHOOSE k \in bad : \A j \in bad : k <= j
  IN IF bad = {} THEN "ok"
     ELSE IF ~Stored(tbl, ids[first]) THEN "not_found"
     ELSE "conflict"

\* the checks of client and stakeholder shared by createActivity and createShiftNote
OwnerCheck(c, x) ==
  IF ~Stored(clients, c) THEN "not_found"
  ELSE IF ~clients[c].active THEN "conflict"
  ELSE IF ~Stored(stakeholders, x) THEN "not_found"
  ELSE IF ~stakeholders[x].active THEN "conflict"
  ELSE "ok"

\* parseISO(shift_date), in hours
parseISO(d) == 24 * d

\* canEditShiftNote that never refuses
canEditAlways(note, t) == TRUE

\* canEditShiftNote(shiftNote).valid at time t: isBefore(now, addHours(shiftDate, 24))
canEditShiftNote(note, t) == t < parseISO(note.shift_date) + EditWindowHours

\* deactivateStakeholder(storage, x)
deactivateStakeholder(x) ==
  /\ NoteCalled
  /\ IF ~stakeholders[x].exists
     THEN /\ entRes' = Outcome("deactivateStakeholder", x, "not_found")
          /\ stakeholders' = stakeholders
     ELSE /\ stakeholders' = [stakeholders EXCEPT ![x].active = FALSE]
          /\ entRes' = Outcome("deactivateStakeholder", x, "ok")
  /\ UNCHANGED <<activities, shiftNotes, windowClosed>>

\* createActivity(storage, {client_id: c, stakeholder_id: x, goal_ids: gs}),
\* no start_time / end_time given
createActivity(c, x, gs) ==
  /\ NoteCalled
  /\ \E a \in ActIds : ~activities[a].exists
  /\ LET st == IF OwnerCheck(c, x) # "ok" THEN OwnerCheck(c, x)
               ELSE LinkCheck(gs, goals, c)
     IN /\ entRes' = Outcome("createActivity", c, st)
        /\ activities' =
             IF st = "ok"
             THEN [activities EXCEPT ![FreshId(activities, ActIds)] =
                     [exists |-> TRUE, client |-> c, goal_ids |-> gs]]
             ELSE activities
  /\ UNCHANGED <<stakeholders, shiftNotes, windowClosed>>

\* updateActivity(storage, a, {goal_ids: gs})
updateActivity(a, gs) ==
  /\ NoteCalled
  /\ LET st == IF ~Stored(activities, a) THEN "not_found"
               ELSE IF gs.given THEN LinkCheck(gs.ids, goals, activities[a].client)
               ELSE "ok"
     IN /\ entRes' = Outcome("updateActivity", a, st)
        /\ activities' =
             IF st = "ok" /\ gs.given
             THEN [activities EXCEPT ![a].goal_ids = gs.ids]
             ELSE activities
  /\ UNCHANGED <<stakeholders, shiftNotes, windowClosed>>

\* createShiftNote(storage, {client_id: c, stakeholder_id: x, shift_date: d,
\* activity_ids: as, goals_progress: gs}) with valid shift times
createShiftNote(c, x, d, as, gs) ==
  /\ NoteCalled
  /\ \E n \in NoteIds : ~shiftNotes[n].exists
  /\ LET st == IF OwnerCheck(c, x) # "ok" THEN OwnerCheck(c, x)
               ELSE IF LinkCheck(as, activities, c) # "ok" THEN LinkCheck(as, activities, c)
               ELSE LinkCheck(gs, goals, c)
     IN /\ entRes' = Outcome("createShiftNote", c, st)
        /\ shiftNotes' =
             IF st = "ok"
             THEN [shiftNotes EXCEPT ![FreshId(shiftNotes, NoteIds)] =
                     [exists |-> TRUE, client |-> c, shift_date |-> d, text |-> "t1",
                      activity_ids |-> as, goals_progress |-> gs, updated_at |-> now]]
             ELSE shiftNotes
  /\ UNCHANGED <<stakeholders, activities, windowClosed>>

\* updateShiftNote(storage, n, {general_observations: ob, activity_ids: as,
\* goals_progress: gs}); ob = Undef when the text is not given
updateShiftNote(n, ob, as, gs) ==
  /\ NoteCalled
  /\ LET note == shiftNotes[n]
         st == IF ~Stored(shiftNotes, n) THEN "not_found"
               ELSE IF ~canEditShiftNote(note, now) THEN "window_expired"
               ELSE IF as.given /\ LinkCheck(as.ids, activities, note.client) # "ok"
               THEN LinkCheck(as.ids, activities, note.client)
               ELSE IF gs.given THEN LinkCheck(gs.ids, goals, note.client)
               ELSE "ok"
     IN /\ entRes' = Outcome("updateShiftNote", n, st)
        /\ shiftNotes' =
             IF st = "ok"
             THEN [shiftNotes EXCEPT ![n] =
                     [note EXCEPT !.text = IF ob # Undef THEN ob ELSE note.text,
                                  !.activity_ids = IF as.given THEN as.ids ELSE note.activity_ids,
                                  !.goals_progress = IF gs.given THEN gs.ids ELSE note.goals_progress,
                                  !.updated_at = now]]
             ELSE shiftNotes
        /\ windowClosed' = IF st = "window_expired" THEN windowClosed \cup {n} ELSE windowClosed
  /\ UNCHANGED <<stakeholders, activities>>

\* the instants around the end of each edit window
Instants ==
  {parseISO(d) + EditWindowHours + o : d \in ShiftDays, o \in {0 - 1, 0, 1}}

\* time passes between two calls
Advance ==
  /\ \E t \in Instants : t > now /\ now' = t
  /\ UNCHANGED <<clients, goals, entRes, ecalls, linkVars>>

\* a store with NClients active clients, active stakeholders and, in each
\* goal slot, a goal of client ((g - 1) % NClients) + 1, as left by
\* createClient, createStakeholder and createGoal
InitNotes ==
  /\ InitStore
  /\ enableCache
  /\ clients = [c \in ClientIds |-> [exists |-> TRUE, active |-> TRUE, ndis |-> 0]]
  /\ goals = [g \in GoalIds |->
                [exists |-> TRUE, id |-> g, client |-> ((g - 1) % NClients) + 1,
                 status |-> "not_started", progress |-> 0, archived |-> FALSE,
                 achieved_at |-> 0, created_at |-> 1, updated_at |-> 1]]
  /\ now = 1
  /\ entRes = [op |-> "createGoal", arg |-> ((NGoals - 1) % NClients) + 1, status |-> "ok",
               suggested |-> FALSE]
  /\ ecalls = 0
  /\ stakeholders = [x \in StakeIds |-> [exists |-> TRUE, active |-> TRUE]]
  /\ activities = [a \in ActIds |-> NoActivity]
  /\ shiftNotes = [n \in NoteIds |-> NoNote]
  /\ windowClosed = {}
  /\ ncalls = 0
  /\ InitFn

\* at most MaxLinkCalls calls of the activity and shift-note services that
\* set links; a call gives at most one of the two lists of a shift note
NextLinks ==
  /\ ncalls < MaxLinkCalls
  /\ \/ \E x \in StakeIds : deactivateStakeholder(x)
     \/ \E c \in ClientIds \cup {0}, x \in StakeIds \cup {0}, gs \in Lists(GoalIds \cup {0}) :
          createActivity(c, x, gs)
     \/ \E a \in ActIds, gs \in Optional(GoalIds \cup {0}) : updateActivity(a, gs)
     \/ \E c \in ClientIds \cup {0}, x \in StakeIds \cup {0}, d \in ShiftDays,
           as \in Lists(ActIds \cup {0}), gs \in Lists(GoalIds \cup {0}) :
          (as = <<>> \/ gs = <<>>) /\ createShiftNote(c, x, d, as, gs)
     \/ \E n \in NoteIds, as \in Optional(ActIds \cup {0}), gs \in Optional(GoalIds \cup {0}) :
          (~as.given \/ ~gs.given) /\ updateShiftNote(n, Undef, as, gs)
  /\ UNCHANGED <<storeVars, fnVars, clients, goals, now, ecalls>>

SpecLinks == InitNotes /\ [][NextLinks]_vars

\* shift notes are created and their text is edited while time passes
NextWindow ==
  \/ /\ \/ \E c \in ClientIds, x \in StakeIds, d \in ShiftDays :
            createShiftNote(c, x, d, <<>>, <<>>)
        \/ \E n \in NoteIds, ob \in Texts \cup {Undef} :
            updateShiftNote(n, ob, NotGiven, NotGiven)
     /\ UNCHANGED <<storeVars, fnVars, clients, goals, now, ecalls>>
  \/ Advance /\ UNCHANGED <<storeVars, fnVars>>

SpecWindow == InitNotes /\ [][NextWindow]_vars

\* ====================================================== validation rules
\* The pure rules of validation/rules.ts, applied to arguments drawn from
\* bounded sets.  Instants are hours, dates are days; day d starts at hour 24 * d.
Percentages == {0, 49, 50, 51, 100}
TargetDays == 0..(1 + MaxDaysAhead)
\* the first and the last hour of day 1
Todays == {HoursPerDay, 2 * HoursPerDay - 1}

\* date-fns startOfDay(date)
startOfDay(t) == t - (t % HoursPerDay)

\* date-fns differenceInCalendarDays(dateLeft, dateRight)
differenceInCalendarDays(dateLeft, dateRight) ==
  LET diff == startOfDay(dateLeft) - startOfDay(dateRight)
  IN IF diff >= 0 THEN diff \div HoursPerDay ELSE 0 - ((0 - diff) \div HoursPerDay)

\* isGoalAtRisk without the lower bound on the days remaining
isGoalAtRiskAlsoOverdue(goal, today) ==
  IF goal.status = "achieved" \/ goal.status = "discontinued" THEN FALSE
  ELSE IF goal.progress >= RiskProgress THEN FALSE
  ELSE differenceInCalendarDays(parseISO(goal.target_date), today) <= RiskWindowDays

\* isGoalAtRisk(goal), today being new Date()
isGoalAtRisk(goal, today) ==
  IF goal.status = "achieved" \/ goal.status = "discontinued" THEN FALSE
  ELSE IF goal.progress >= RiskProgress THEN FALSE
  ELSE LET daysRemaining == differenceInCalendarDays(parseISO(goal.target_date), today)
       IN daysRemaining <= RiskWindowDays /\ daysRemaining >= 0

\* a goal and an instant are given
InitRisk ==
  /\ InitStore
  /\ InitEnt
  /\ InitLinkVars
  /\ fnIn \in [status : Statuses, progress : Percentages, target_date : TargetDays,
                today : Todays]
  /\ fnOut = NotApplied

\* isGoalAtRisk is applied to them
ApplyIsGoalAtRisk ==
  /\ ~fnOut.applied
  /\ fnOut' = Result(isGoalAtRisk(fnIn, fnIn.today))
  /\ UNCHANGED <<storeVars, entVars, linkVars, fnIn>>

SpecRisk == InitRisk /\ [][ApplyIsGoalAtRisk]_vars

\* ------------------------------ update handlers whose executions overlap
\* an update handler (updateGoalProgress, updateGoal, ...) of the record with id 1; the
\* val of the stored record is its updated_at
StampedId == 1

\* the handler is called: const goal = await storage.read('goals', goalId)
HandlerRead(p) ==
  /\ op[p].kind = "read" => ~(result[p].status = "ok" /\ result[p].found)
  /\ StartRead(p, StampedId)
  /\ UNCHANGED <<pre, entVars>>

\* the continuation after the read: {...goal, updated_at: getCurrentTimestamp()} is
\* built and storage.write is called, with no await in between
HandlerWrite(p) ==
  /\ pc[p] = "done"
  /\ op[p].kind = "read"
  /\ result[p].status = "ok"
  /\ result[p].found
  /\ StartWrite(p, op[p].id, now)
  /\ UNCHANGED <<pre, entVars>>

\* time passes
ClockTick ==
  /\ now < MaxNow
  /\ now' = now + 1
  /\ UNCHANGED <<storeVars, clients, goals, entRes, ecalls>>

\* the record was created at instant 1
InitStamp ==
  /\ enableCache \in BOOLEAN
  /\ file = WriteJson(<<Rec(StampedId, 1)>>)
  /\ tmp = NoFile
  /\ lockHolder = 0
  /\ cache = [i \in AllIds |-> 0]
  /\ pc = [p \in AllProcs |-> "idle"]
  /\ op = [p \in AllProcs |-> NoOp]
  /\ base = [p \in AllProcs |-> <<>>]
  /\ attempts = [p \in AllProcs |-> 0]
  /\ backoff = [p \in AllProcs |-> 0]
  /\ result = [p \in AllProcs |-> NoResult]
  /\ calls = 0
  /\ committed = <<Rec(StampedId, 1)>>
  /\ pre = <<>>
  /\ stable = [i \in AllIds |-> IF i = StampedId THEN 1 ELSE 0]
  /\ expect = [p \in AllProcs |-> 0]
  /\ initialized = TRUE
  /\ cacheMap = enableCache
  /\ backup = NoFile
  /\ atClose = [closed |-> FALSE, recs |-> <<>>]
  /\ held = <<>>
  /\ lcalls = 0
  /\ restored = "no"
  /\ InitEnt
  /\ InitLinkVars
  /\ InitFn

\* NProcs handler executions at a time, each awaiting its own storage calls only
NextStamp ==
  \/ /\ \E p \in Procs :
          \/ HandlerRead(p)
          \/ ReadCollection(p) /\ UNCHANGED entVars
          \/ ReadReturn(p) /\ UNCHANGED entVars
          \/ HandlerWrite(p)
          \/ Step(p) /\ UNCHANGED entVars
     /\ UNCHANGED <<linkVars, fnVars>>
  \/ ClockTick /\ UNCHANGED <<linkVars, fnVars>>

SpecStamp == InitStamp /\ [][NextStamp]_vars

\* ------------------------------------------------- list, count and listClients
\* the records of a collection in stored order: the record at position k has id k; a
\* name is a number, UndefNum a missing or null one
Names == {1, 2}

QueryRecords(k) == [id : {k}, name : Names \cup {UndefNum}, active : BOOLEAN]

StoredOfLen(n) == {r \in [1..n -> UNION {QueryRecords(k) : k \in 1..n}] : \A k \in 1..n : r[k].id = k}

Collections == UNION {StoredOfLen(n) : n \in 0..NRecs}

\* Filter<T> over the fields active and name; Undef and UndefNum stand for undefined
Filters == [active : {Undef, "true", "false"}, name : {UndefNum, 1}]

\* QueryOptions; "missing" is a sortBy that names a field no record has
QueryOptions ==
  [sortBy : {Undef, "name", "missing"}, sortOrder : {Undef, "asc", "desc"},
   limit : {UndefNum, 0, 1, 2}, offset : {UndefNum, 0, 1}]

Range(arr) == {arr[k] : k \in 1..Len(arr)}

\* matchesFilter(record, filter)
matchesFilter(record, filter) ==
  /\ filter.active # Undef => record.active = (filter.active = "true")
  /\ filter.name # UndefNum => record.name = filter.name

\* records.filter(pred), for a predicate given as the set of records it accepts
RECURSIVE ArrayFilter(_, _)
ArrayFilter(records, accepted) ==
  IF records = <<>> THEN <<>>
  ELSE IF Head(records) \in accepted
       THEN <<Head(records)>> \o ArrayFilter(Tail(records), accepted)
       ELSE ArrayFilter(Tail(records), accepted)

\* (a as Record<string, unknown>)[options.sortBy]
SortValue(record, sortBy) == IF sortBy = "name" THEN record.name ELSE UndefNum

\* the comparator handed to records.sort
compareFn(a, b, options) ==
  LET aVal == SortValue(a, options.sortBy)
      bVal == SortValue(b, options.sortBy)
      comparison == IF aVal < bVal THEN 0 - 1 ELSE IF aVal > bVal THEN 1 ELSE 0
  IN IF aVal = UndefNum \/ bVal = UndefNum
     THEN 0
     ELSE IF options.sortOrder = "desc" THEN 0 - comparison ELSE comparison

\* Array.prototype.sort as V8 runs it on an array shorter than 64 elements: the leading
\* run is counted (and reversed when strictly descending), the remaining elements are
\* placed by binary insertion
RECURSIVE RunEnd(_, _, _, _)
RunEnd(arr, idx, isDescending, options) ==
  IF idx > Len(arr) THEN Len(arr)
  ELSE LET order == compareFn(arr[idx], arr[idx - 1], options) IN
       IF isDescending = (order < 0)
       THEN RunEnd(arr, idx + 1, isDescending, options)
       ELSE idx - 1

Reverse(arr) == [k \in 1..Len(arr) |-> arr[Len(arr) + 1 - k]]

\* the number of elements of arr[1..right] that stay left of the pivot
RECURSIVE InsertionPoint(_, _, _, _, _)
InsertionPoint(arr, pivot, left, right, options) ==
  IF left >= right THEN left
  ELSE LET mid == left + ((right - left) \div 2) IN
       IF compareFn(pivot, arr[mid + 1], options) < 0
       THEN InsertionPoint(arr, pivot, left, mid, options)
       ELSE InsertionPoint(arr, pivot, mid + 1, right, options)

RECURSIVE BinaryInsertionSort(_, _, _)
BinaryInsertionSort(arr, start, options) ==
  IF start > Len(arr) THEN arr
  ELSE LET left == InsertionPoint(arr, arr[start], 0, start - 1, options)
           placed == SubSeq(arr, 1, left) \o <<arr[start]>> \o SubSeq(arr, left + 1, start - 1)
                       \o SubSeq(arr, start + 1, Len(arr))
       IN BinaryInsertionSort(placed, start + 1, options)

ArraySort(arr, options) ==
  IF Len(arr) < 2 THEN arr
  ELSE LET isDescending == compareFn(arr[2], arr[1], options) < 0
           runLength == RunEnd(arr, 3, isDescending, options)
           run == IF isDescending
                  THEN Reverse(SubSeq(arr, 1, runLength)) \o SubSeq(arr, runLength + 1, Len(arr))
                  ELSE arr
       IN BinaryInsertionSort(run, runLength + 1, options)

\* arr.slice(start, end) for start >= 0
Slice(arr, start, end) ==
  SubSeq(arr, start + 1, IF end < Len(arr) THEN end ELSE Len(arr))

\* JsonStorage.list(collection, filter, options) on a collection that holds records
list(records, filter, options) ==
  LET filtered == ArrayFilter(records, {r \in Range(records) : matchesFilter(r, filter)})
      sorted == IF options.sortBy # Undef THEN ArraySort(filtered, options) ELSE filtered
      offset == IF options.offset \in {UndefNum, 0} THEN 0 ELSE options.offset
  IN IF options.limit \notin {UndefNum, 0}
     THEN Slice(sorted, offset, offset + options.limit)
     ELSE IF offset > 0 THEN Slice(sorted, offset, Len(sorted)) ELSE sorted

\* JsonStorage.count(collection, filter)
count(records, filter) ==
  Len(ArrayFilter(records, {r \in Range(records) : matchesFilter(r, filter)}))

InitList ==
  /\ InitStore
  /\ enableCache
  /\ InitEnt
  /\ InitLinkVars
  /\ fnIn \in [records : Collections, filter : Filters, options : QueryOptions]
  /\ fnOut = NotApplied

ApplyList ==
  /\ ~fnOut.applied
  /\ fnOut' = Result([list |-> list(fnIn.records, fnIn.filter, fnIn.options),
                      count |-> count(fnIn.records, fnIn.filter)])
  /\ UNCHANGED <<storeVars, entVars, linkVars, fnIn>>

SpecList == InitList /\ [][ApplyList]_vars

\* the clients collection: every client has a name
ClientCollections == {records \in Collections : \A r \in Range(records) : r.name # UndefNum}

\* a search term is identified with the set of names that contain it, case ignored; the
\* term is not given, or empty, when given is FALSE
Searches == [given : {TRUE}, names : SUBSET Names \ {{}}] \cup {[given |-> FALSE, names |-> {}]}

\* the filters clientListFilterSchema accepts
ClientListFilters ==
  [active : {Undef, "true", "false"}, search : Searches, limit : {UndefNum, 1, 2},
   offset : {UndefNum, 0, 1}]

\* client.name.toLowerCase().includes(searchLower)
NameIncludes(record, search) == record.name \in search.names

\* listClients(storage, filter) on a clients collection that holds records
listClients(records, filter) ==
  LET storageFilter == [active |-> filter.active, name |-> UndefNum]
      clients_ == list(records, storageFilter,
                       [sortBy |-> "name", sortOrder |-> "asc", limit |-> filter.limit,
                        offset |-> filter.offset])
  IN IF filter.search.given
     THEN ArrayFilter(clients_, {r \in Range(clients_) : NameIncludes(r, filter.search)})
     ELSE clients_

InitListClients ==
  /\ InitStore
  /\ enableCache
  /\ InitEnt
  /\ InitLinkVars
  /\ fnIn \in [records : ClientCollections, filter : ClientListFilters]
  /\ fnOut = NotApplied

ApplyListClients ==
  /\ ~fnOut.applied
  /\ fnOut' = Result(listClients(fnIn.records, fnIn.filter))
  /\ UNCHANGED <<storeVars, entVars, linkVars, fnIn>>

SpecListClients == InitListClients /\ [][ApplyListClients]_vars

\* ------------------------------------------------------------ getDashboard
\* the clients and goals collections as storage.list returns them; a goal is due on day 2,
\* the day after the call
DashClients == UNION {[1..n -> [active : BOOLEAN]] : n \in 0..NRecs}

DashGoals ==
  UNION {[1..n -> [archived : BOOLEAN, status : Statuses, progress : {49, 50},
                   target_date : {2}]] : n \in 0..NRecs}

\* the number of goals of status st among the goals given
CountStatus(goals_, st) == Len(ArrayFilter(goals_, {g \in Range(goals_) : g.status = st}))

\* a dashboard whose histogram counts the archived goals too
getDashboardCountsArchived(allClients, allGoals, today) ==
  LET activeClients == ArrayFilter(allClients, {c \in Range(allClients) : c.active})
      activeGoals == ArrayFilter(allGoals, {g \in Range(allGoals) : ~g.archived})
      goalsAtRisk == ArrayFilter(activeGoals, {g \in Range(activeGoals) : isGoalAtRisk(g, today)})
  IN [summary |->
        [total_clients |-> Len(allClients),
         active_clients |-> Len(activeClients),
         total_active_goals |-> Len(activeGoals),
         goals_by_status |-> [st \in Statuses |-> CountStatus(allGoals, st)],
         goals_at_risk |-> Len(goalsAtRisk)],
      goals_at_risk |-> goalsAtRisk]

\* getDashboard(storage): the summary and the at-risk list
getDashboard(allClients, allGoals, today) ==
  LET activeClients == ArrayFilter(allClients, {c \in Range(allClients) : c.active})
      activeGoals == ArrayFilter(allGoals, {g \in Range(allGoals) : ~g.archived})
      goalsAtRisk == ArrayFilter(activeGoals, {g \in Range(activeGoals) : isGoalAtRisk(g, today)})
  IN [summary |->
        [total_clients |-> Len(allClients),
         active_clients |-> Len(activeClients),
         total_active_goals |-> Len(activeGoals),
         goals_by_status |-> [st \in Statuses |-> CountStatus(activeGoals, st)],
         goals_at_risk |-> Len(goalsAtRisk)],
      goals_at_risk |-> goalsAtRisk]

InitDash ==
  /\ InitStore
  /\ enableCache
  /\ InitEnt
  /\ InitLinkVars
  /\ fnIn \in [allClients : DashClients, allGoals : DashGoals, today : {HoursPerDay}]
  /\ fnOut = NotApplied

\* the call reads the collections and returns
ApplyGetDashboard ==
  /\ ~fnOut.applied
  /\ fnOut' = Result(getDashboard(fnIn.allClients, fnIn.allGoals, fnIn.today))
  /\ UNCHANGED <<storeVars, entVars, linkVars, fnIn>>

SpecDash == InitDash /\ [][ApplyGetDashboard]_vars

\* ------------------------------------ entity handlers whose executions overlap
\* Each process runs one handler; a step is one awaited storage call together with the
\* synchronous code that follows it.  pc[p] is the position of the handler, op[p] its
\* call, base[p] the record it has read, entRes the outcome of the handler that
\* returned last.
HandlerFrame ==
  UNCHANGED <<lifeVars, enableCache, file, tmp, lockHolder, cache, attempts, backoff, calls,
              committed, pre, stable, expect, now, ecalls, linkVars, fnVars>>

\* the handler of p goes to position at
HandlerAt(p, k, i, v, at) ==
  /\ op' = [op EXCEPT ![p] = [kind |-> k, id |-> i, val |-> v]]
  /\ pc' = [pc EXCEPT ![p] = at]

\* the handler of p returns or throws
HandlerReturns(p, k, i, st) ==
  /\ pc' = [pc EXCEPT ![p] = "done"]
  /\ result' = Returned(p, st)
  /\ entRes' = Outcome(k, i, st)

\* createGoal: await storage.read('clients', c), then the two checks
CreateGoalRead(p, c) ==
  /\ pc[p] = "idle"
  /\ IF ~clients[c].exists
     THEN /\ HandlerReturns(p, "createGoal", c, "not_found")
          /\ op' = [op EXCEPT ![p] = [kind |-> "createGoal", id |-> c, val |-> 0]]
     ELSE IF ~clients[c].active
     THEN /\ HandlerReturns(p, "createGoal", c, "conflict")
          /\ op' = [op EXCEPT ![p] = [kind |-> "createGoal", id |-> c, val |-> 0]]
     ELSE /\ HandlerAt(p, "createGoal", c, 0, "createGoal_write")
          /\ UNCHANGED <<result, entRes>>
  /\ UNCHANGED <<clients, goals, base>>
  /\ HandlerFrame

\* a createGoal that looks at the client again when it writes
CreateGoalWriteRechecks(p) ==
  /\ pc[p] = "createGoal_write"
  /\ \E g \in GoalIds : ~goals[g].exists
  /\ IF ~clients[op[p].id].active
     THEN /\ HandlerReturns(p, "createGoal", op[p].id, "conflict")
          /\ goals' = goals
     ELSE /\ goals' = StoreRecord(goals,
                         [exists |-> TRUE, id |-> FreshId(goals, GoalIds), client |-> op[p].id,
                          status |-> "not_started", progress |-> 0, archived |-> FALSE,
                          achieved_at |-> 0, created_at |-> now, updated_at |-> now])
          /\ HandlerReturns(p, "createGoal", op[p].id, "ok")
  /\ UNCHANGED <<clients, base, op>>
  /\ HandlerFrame

\* createGoal: await storage.write('goals', goal)
CreateGoalWrite(p) ==
  /\ pc[p] = "createGoal_write"
  /\ \E g \in GoalIds : ~goals[g].exists
  /\ goals' = StoreRecord(goals,
                 [exists |-> TRUE, id |-> FreshId(goals, GoalIds), client |-> op[p].id,
                  status |-> "not_started", progress |-> 0, archived |-> FALSE,
                  achieved_at |-> 0, created_at |-> now, updated_at |-> now])
  /\ HandlerReturns(p, "createGoal", op[p].id, "ok")
  /\ UNCHANGED <<clients, base, op>>
  /\ HandlerFrame

\* deactivateClient: await storage.read('clients', c)
DeactivateRead(p, c) ==
  /\ pc[p] = "idle"
  /\ IF ~clients[c].exists
     THEN /\ HandlerReturns(p, "deactivateClient", c, "not_found")
          /\ op' = [op EXCEPT ![p] = [kind |-> "deactivateClient", id |-> c, val |-> 0]]
          /\ base' = base
     ELSE /\ HandlerAt(p, "deactivateClient", c, 0, "deactivate_list")
          /\ base' = [base EXCEPT ![p] = <<clients[c]>>]
          /\ UNCHANGED <<result, entRes>>
  /\ UNCHANGED <<clients, goals>>
  /\ HandlerFrame

\* deactivateClient: await storage.list('goals', {client_id}), then the active-goals check
DeactivateList(p) ==
  /\ pc[p] = "deactivate_list"
  /\ IF \E g \in GoalIds : goals[g].exists /\ goals[g].client = op[p].id /\ ~goals[g].archived
     THEN HandlerReturns(p, "deactivateClient", op[p].id, "conflict")
     ELSE /\ pc' = [pc EXCEPT ![p] = "deactivate_write"]
          /\ UNCHANGED <<result, entRes>>
  /\ UNCHANGED <<clients, goals, base, op>>
  /\ HandlerFrame

\* deactivateClient: await storage.write('clients', {...client, active: false})
DeactivateWrite(p) ==
  /\ pc[p] = "deactivate_write"
  /\ clients' = [clients EXCEPT ![op[p].id] = [base[p][1] EXCEPT !.active = FALSE]]
  /\ HandlerReturns(p, "deactivateClient", op[p].id, "ok")
  /\ UNCHANGED <<goals, base, op>>
  /\ HandlerFrame

\* createClient with an ndis_number n: await storage.list('clients'), then the duplicate
\* check
CreateClientList(p, n) ==
  /\ pc[p] = "idle"
  /\ IF \E c \in ClientIds : clients[c].exists /\ clients[c].ndis = n /\ clients[c].active
     THEN /\ HandlerReturns(p, "createClient", n, "conflict")
          /\ op' = [op EXCEPT ![p] = [kind |-> "createClient", id |-> 0, val |-> n]]
     ELSE /\ HandlerAt(p, "createClient", 0, n, "createClient_write")
          /\ UNCHANGED <<result, entRes>>
  /\ UNCHANGED <<clients, goals, base>>
  /\ HandlerFrame

\* createClient: await storage.write('clients', client)
CreateClientWrite(p) ==
  /\ pc[p] = "createClient_write"
  /\ \E c \in ClientIds : ~clients[c].exists
  /\ clients' = [clients EXCEPT ![FreshId(clients, ClientIds)] =
                   [exists |-> TRUE, active |-> TRUE, ndis |-> op[p].val]]
  /\ HandlerReturns(p, "createClient", op[p].val, "ok")
  /\ UNCHANGED <<goals, base, op>>
  /\ HandlerFrame

\* updateGoalProgress({goal_id: g, progress_percentage: pr}) or updateGoal(g, {archived:
\* true}): await storage.read('goals', g)
GoalUpdateRead(p, k, g, pr) ==
  /\ pc[p] = "idle"
  /\ IF ~goals[g].exists
     THEN /\ HandlerReturns(p, k, g, "not_found")
          /\ op' = [op EXCEPT ![p] = [kind |-> k, id |-> g, val |-> pr]]
          /\ base' = base
     ELSE /\ HandlerAt(p, k, g, pr, "goal_write")
          /\ base' = [base EXCEPT ![p] = <<goals[g]>>]
          /\ UNCHANGED <<result, entRes>>
  /\ UNCHANGED <<clients, goals>>
  /\ HandlerFrame

\* the record the handler of p builds from the goal it read
UpdatedGoal(p) ==
  LET goal == base[p][1] IN
  IF op[p].kind = "updateGoalProgress"
  THEN [goal EXCEPT !.progress = op[p].val,
                    !.status = suggestGoalStatus(op[p].val),
                    !.achieved_at = IF suggestGoalStatus(op[p].val) = "achieved"
                                       /\ goal.status # "achieved"
                                    THEN now ELSE goal.achieved_at,
                    !.updated_at = now]
  ELSE [goal EXCEPT !.archived = TRUE, !.updated_at = now]

\* updateGoalProgress / updateGoal: await storage.write('goals', updatedGoal)
GoalUpdateWrite(p) ==
  /\ pc[p] = "goal_write"
  /\ goals' = StoreRecord(goals, UpdatedGoal(p))
  /\ HandlerReturns(p, op[p].kind, op[p].id, "ok")
  /\ UNCHANGED <<clients, base, op>>
  /\ HandlerFrame

\* the store holds nothing, or one active client, or that client and one open goal of it
InitRace ==
  /\ InitStore
  /\ enableCache
  /\ InitLinkVars
  /\ InitFn
  /\ \E n \in 0..2 :
       /\ clients = [c \in ClientIds |->
                       IF c = 1 /\ n >= 1 THEN [exists |-> TRUE, active |-> TRUE, ndis |-> 0]
                       ELSE NoClient]
       /\ goals = [g \in GoalIds |->
                     IF g = 1 /\ n = 2
                     THEN [exists |-> TRUE, id |-> 1, client |-> 1, status |-> "not_started",
                           progress |-> 0, archived |-> FALSE, achieved_at |-> 0,
                           created_at |-> 1, updated_at |-> 1]
                     ELSE NoGoal]
  /\ now = 1
  /\ entRes = [op |-> "none", arg |-> 0, status |-> "none", suggested |-> FALSE]
  /\ ecalls = 0

NextRace ==
  \E p \in Procs :
    \/ \E c \in ClientIds : CreateGoalRead(p, c)
    \/ CreateGoalWrite(p)
    \/ \E c \in ClientIds : DeactivateRead(p, c)
    \/ DeactivateList(p)
    \/ DeactivateWrite(p)
    \/ \E n \in Ndis : CreateClientList(p, n)
    \/ CreateClientWrite(p)
    \/ \E g \in GoalIds : GoalUpdateRead(p, "updateGoalProgress", g, 50)
    \/ \E g \in GoalIds : GoalUpdateRead(p, "updateGoal", g, 0)
    \/ GoalUpdateWrite(p)

SpecRace == InitRace /\ [][NextRace]_vars

\* ------------------------------------------------- restore beside other calls
MaxRestoreCalls == 3

\* the callers of the restore scenario
RestoreProcs == {1, 2}

\* an initialized storage whose collection file holds one record, with a backup taken
\* earlier that holds another value of the record, or none
InitRestore ==
  /\ enableCache \in BOOLEAN
  /\ file = WriteJson(<<Rec(1, 1)>>)
  /\ backup \in {WriteJson(<<>>), WriteJson(<<Rec(1, 2)>>)}
  /\ tmp = NoFile
  /\ lockHolder = 0
  /\ cache = [i \in AllIds |-> 0]
  /\ pc = [p \in AllProcs |-> "idle"]
  /\ op = [p \in AllProcs |-> NoOp]
  /\ base = [p \in AllProcs |-> <<>>]
  /\ attempts = [p \in AllProcs |-> 0]
  /\ backoff = [p \in AllProcs |-> 0]
  /\ result = [p \in AllProcs |-> NoResult]
  /\ calls = 0
  /\ committed = ReadJson(file)
  /\ pre = <<>>
  /\ stable = [i \in AllIds |-> ValueOf(ReadJson(file), i)]
  /\ expect = [p \in AllProcs |-> 0]
  /\ initialized = TRUE
  /\ cacheMap = enableCache
  /\ atClose = [closed |-> FALSE, recs |-> <<>>]
  /\ held = ReadJson(backup)
  /\ lcalls = 0
  /\ restored = "no"
  /\ InitEnt
  /\ InitLinkVars
  /\ InitFn

\* concurrent callers on one JsonStorage instance, one of which may call restoreBackup
NextRestore ==
  /\ \E p \in RestoreProcs :
       \/ /\ pc[p] \in {"idle", "done"} => calls + lcalls < MaxRestoreCalls
          /\ Call(p, LifeIds, pre)
       \/ Step(p)
       \/ /\ calls + lcalls < MaxRestoreCalls
          /\ StartRestore(p)
       \/ RestorePathExists(p)
       \/ RestoreCopy(p)
       \/ RestoreCache(p)
  /\ UNCHANGED <<entVars, linkVars, fnVars>>

SpecRestore == InitRestore /\ [][NextRestore]_vars

\* ------------------------------------- a handler call over the storage engine
\* the goals the collection file of the scenario can hold: the value of a stored record
\* is the index of its status and progress_percentage
GoalStates ==
  << [status |-> "not_started", progress |-> 0],
     [status |-> "in_progress", progress |-> 50],
     [status |-> "achieved", progress |-> 100] >>

GoalVals == {v \in Vals : v <= Len(GoalStates)}

GoalCode(st, pr) ==
  CHOOSE v \in 1..Len(GoalStates) : GoalStates[v] = [status |-> st, progress |-> pr]

\* an initialized storage whose goals file is empty or holds one goal of an earlier run
InitFail ==
  /\ enableCache \in BOOLEAN
  /\ file \in {WriteJson(<<>>)} \cup {WriteJson(<<Rec(1, v)>>) : v \in GoalVals}
  /\ backup = NoFile
  /\ tmp = NoFile
  /\ lockHolder = 0
  /\ cache = [i \in AllIds |-> 0]
  /\ pc = [p \in AllProcs |-> "idle"]
  /\ op = [p \in AllProcs |-> NoOp]
  /\ base = [p \in AllProcs |-> <<>>]
  /\ attempts = [p \in AllProcs |-> 0]
  /\ backoff = [p \in AllProcs |-> 0]
  /\ result = [p \in AllProcs |-> NoResult]
  /\ calls = 0
  /\ committed = ReadJson(file)
  /\ pre = ReadJson(file)
  /\ stable = [i \in AllIds |-> ValueOf(ReadJson(file), i)]
  /\ expect = [p \in AllProcs |-> 0]
  /\ initialized = TRUE
  /\ cacheMap = enableCache
  /\ atClose = [closed |-> FALSE, recs |-> <<>>]
  /\ held = <<>>
  /\ lcalls = 0
  /\ restored = "no"
  /\ InitEnt
  /\ InitLinkVars
  /\ InitFn

\* updateGoalProgress is called: the input passes the schema and the handler awaits
\* storage.read('goals', data.goal_id), which consults the cache synchronously
ProgressCall(p, g, st, pr) ==
  /\ pc[p] \in {"idle", "done"}
  /\ entRes.status # "pending"
  /\ calls + 1 < MaxCalls
  /\ calls' = calls + 1
  /\ op' = [op EXCEPT ![p] = [kind |-> "updateGoalProgress", id |-> g, val |-> pr, status |-> st]]
  /\ base' = [base EXCEPT ![p] = <<>>]
  /\ attempts' = [attempts EXCEPT ![p] = 0]
  /\ backoff' = [backoff EXCEPT ![p] = 0]
  /\ expect' = [expect EXCEPT ![p] = 0]
  /\ pre' = committed
  /\ entRes' = Outcome("updateGoalProgress", g, "pending")
  /\ IF enableCache /\ cache[g] # 0
     THEN /\ pc' = [pc EXCEPT ![p] = "done"]
          /\ result' = [result EXCEPT ![p] =
               [status |-> "ok", found |-> TRUE, val |-> cache[g], recs |-> <<>>]]
     ELSE /\ pc' = [pc EXCEPT ![p] = "readCollection"]
          /\ result' = [result EXCEPT ![p] = NoResult]
  /\ UNCHANGED <<lifeVars, enableCache, file, tmp, lockHolder, cache, committed, stable,
                 clients, goals, now, ecalls, linkVars, fnVars>>

\* the status and progress the handler would store for the goal of value v
NewGoalState(p, v) ==
  LET goal == GoalStates[v]
      newProgress == IF op[p].val # UndefNum THEN op[p].val ELSE goal.progress
      newStatus == IF op[p].val # UndefNum /\ op[p].status = Undef
                   THEN suggestGoalStatus(newProgress)
                   ELSE IF op[p].status # Undef THEN op[p].status ELSE goal.status
  IN [status |-> newStatus, progress |-> newProgress]

\* a handler that starts its write before it throws the alignment error
ProgressCheckWritesFirst(p) ==
  /\ pc[p] = "done"
  /\ op[p].kind = "updateGoalProgress"
  /\ entRes.status = "pending"
  /\ IF result[p].status # "ok"
     THEN /\ entRes' = Outcome("updateGoalProgress", op[p].id, "internal")
          /\ UNCHANGED <<storeVars>>
     ELSE IF ~result[p].found
     THEN /\ entRes' = Outcome("updateGoalProgress", op[p].id, "not_found")
          /\ UNCHANGED <<storeVars>>
     ELSE LET new == NewGoalState(p, result[p].val) IN
          IF ~validateGoalProgressAlignment(new.status, new.progress)
          THEN /\ entRes' = Outcome("updateGoalProgress", op[p].id, "validation")
               /\ StartWrite(p, op[p].id, result[p].val)
               /\ pre' = pre
          ELSE /\ entRes' = entRes
               /\ StartWrite(p, op[p].id, GoalCode(new.status, new.progress))
               /\ pre' = pre
  /\ UNCHANGED <<clients, goals, now, ecalls, linkVars, fnVars>>

\* updateGoalProgress after the read: not-found, the alignment check, then the write
ProgressCheck(p) ==
  /\ pc[p] = "done"
  /\ op[p].kind = "updateGoalProgress"
  /\ entRes.status = "pending"
  /\ IF result[p].status # "ok"
     THEN /\ entRes' = Outcome("updateGoalProgress", op[p].id, "internal")
          /\ UNCHANGED <<storeVars>>
     ELSE IF ~result[p].found
     THEN /\ entRes' = Outcome("updateGoalProgress", op[p].id, "not_found")
          /\ UNCHANGED <<storeVars>>
     ELSE LET new == NewGoalState(p, result[p].val) IN
          IF ~validateGoalProgressAlignment(new.status, new.progress)
          THEN /\ entRes' = Outcome("updateGoalProgress", op[p].id, "validation")
               /\ UNCHANGED <<storeVars>>
          ELSE /\ entRes' = entRes
               /\ StartWrite(p, op[p].id, GoalCode(new.status, new.progress))
               /\ pre' = pre
  /\ UNCHANGED <<clients, goals, now, ecalls, linkVars, fnVars>>

\* updateGoalProgress returns the updated goal once storage.write has returned
ProgressReturn(p) ==
  /\ pc[p] = "done"
  /\ op[p].kind = "write"
  /\ entRes.status = "pending"
  /\ entRes' = Outcome("updateGoalProgress", op[p].id,
                       IF result[p].status = "ok" THEN "ok" ELSE "internal")
  /\ UNCHANGED <<storeVars, clients, goals, now, ecalls, linkVars, fnVars>>

\* one caller that awaits each updateGoalProgress call
NextFail ==
  \E p \in SeqProcs :
    \/ \E g \in LifeIds, st \in {Undef, "achieved", "not_started"},
          pr \in {GoalStates[v].progress : v \in GoalVals} \cup {UndefNum} :
         ProgressCall(p, g, st, pr)
    \/ ReadCollection(p) /\ UNCHANGED <<entVars, linkVars, fnVars>>
    \/ ReadReturn(p) /\ UNCHANGED <<entVars, linkVars, fnVars>>
    \/ ProgressCheck(p)
    \/ Step(p) /\ UNCHANGED <<entVars, linkVars, fnVars>>
    \/ ProgressReturn(p)

SpecFail == InitFail /\ [][NextFail]_vars

\* =================================================================== claims
InCS(p) ==
  pc[p] \in {"readJson", "writeJson", "move_remove", "move_rename", "cache_update", "release"}

WritersDone == \A p \in Writers : pc[p] = "done"
Succeeded == {p \in Writers : result[p].status = "ok"}

C2_CyclesSerialized ==
  /\ \A p, q \in Procs : (p # q /\ InCS(p)) => ~InCS(q)
  /\ \A p \in Procs :
       /\ InCS(p) => lockHolder = p
       /\ pc[p] \in {"writeJson", "move_remove"} =>
            /\ file.exists
            /\ ReadJson(file) = base[p]
            /\ base[p] = committed
       /\ pc[p] = "move_rename" =>
            /\ ~file.exists
            /\ tmp = WriteJson(NewRecords(p))
            /\ base[p] = committed

C2_Witness ==
  \E p, q \in Procs :
    /\ pc[p] = "move_remove"
    /\ Len(base[p]) > 0
    /\ pc[q] = "lock_acquire"
    /\ attempts[q] > 0
    /\ op[q].kind = "delete"

\* C3 as stated: a read(id) that is called after a write of that id returned,
\* with no write or delete of the id called since, returns the written record.
C3_ReadSeesReturnedWrite ==
  \A p \in Procs :
    (op[p].kind = "read" /\ pc[p] = "done" /\ expect[p] # 0) =>
      /\ result[p].status = "ok"
      /\ result[p].found
      /\ result[p].val = expect[p]

\* C4 as stated: a reader that reads the file while mutations run obtains the
\* complete content of the latest completed replacement (the pre- or the
\* post-mutation list), never a missing file.
C4_ReaderSeesCompleteContent ==
  [][\A p \in Procs :
       (pc[p] = "readCollection" /\ pc'[p] # "readCollection") =>
         /\ result'[p].status # "ENOENT"
         /\ base'[p] = committed]_vars

\* C5: a call that is not running does not hold the lock, whatever way it
\* ended: success, delete of an absent id, or a failed file-system call.
C5_LockReleasedOnExit ==
  /\ \A p \in Procs : pc[p] \in {"idle", "done"} => lockHolder # p
  /\ lockHolder # 0 => InCS(lockHolder)

C5_Witness ==
  \E p, q \in Procs :
    /\ pc[p] = "done" /\ result[p].status = "EIO"
    /\ pc[q] = "done" /\ op[q].kind = "delete" /\ result[q].status = "ok" /\ ~result[q].found
    /\ lockHolder = 0

\* C6: lock acquisition is bounded: a call makes at most Retries retries,
\* each after a delay between MinTimeout and MaxTimeout that never shrinks,
\* and an attempt that finds the lock held after the last retry ends the call
\* with the lock error; every attempt acquires, counts one retry, or fails.
C6_BoundedAcquisition ==
  /\ [](\A p \in Procs :
          /\ attempts[p] <= Retries
          /\ attempts[p] > 0 => (backoff[p] >= MinTimeout /\ backoff[p] <= MaxTimeout))
  /\ [][\A p \in Procs :
          (pc[p] = "lock_acquire" /\ <<pc[p], attempts[p]>> # <<pc'[p], attempts'[p]>>) =>
            \/ pc'[p] = "readJson" /\ lockHolder' = p
            \/ /\ pc'[p] = "lock_acquire"
               /\ attempts'[p] = attempts[p] + 1
               /\ backoff'[p] >= backoff[p]
            \/ /\ pc'[p] = "done"
               /\ attempts[p] = Retries
               /\ result'[p].status = "ELOCKED"]_vars

C6_Witness ==
  \E p \in Procs :
    /\ pc[p] = "done"
    /\ result[p].status = "ELOCKED"
    /\ attempts[p] = Retries
    /\ backoff[p] = MaxTimeout

\* C7: a read that directly follows a successful write of the same id by the
\* same sequential caller returns a record equal to the written one.
C7_WriteReadRoundTrip ==
  \A p \in SeqProcs :
    (op[p].kind = "read" /\ pc[p] = "done" /\ expect[p] # 0) =>
      /\ result[p].status = "ok" /\ result[p].found
      /\ Rec(op[p].id, result[p].val) = Rec(op[p].id, expect[p])
      /\ \E k \in 1..Len(committed) : committed[k] = Rec(op[p].id, result[p].val)

C7_Witness ==
  \E p \in SeqProcs :
    /\ op[p].kind = "read" /\ pc[p] = "done" /\ expect[p] # 0
    /\ Len(committed) = 2
    /\ result[p].found

\* C8: a successful write leaves exactly one record with its id, equal to the
\* written record; the count grows by one when the id was new and stays the
\* same when it was stored, and every other record keeps its place and value.
C8_UpsertById ==
  \A p \in SeqProcs :
    (op[p].kind = "write" /\ pc[p] = "done" /\ result[p].status = "ok") =>
      LET recs == ReadJson(file)
          i == op[p].id IN
      /\ file.exists
      /\ Cardinality({k \in 1..Len(recs) : recs[k].id = i}) = 1
      /\ \E k \in 1..Len(recs) : recs[k] = Rec(i, op[p].val)
      /\ Len(recs) = Len(pre) + (IF i \in IdsOf(pre) THEN 0 ELSE 1)
      /\ \A k \in 1..Len(pre) : pre[k].id # i => recs[k] = pre[k]

C8_Witness ==
  \E p \in SeqProcs :
    /\ op[p].kind = "write" /\ pc[p] = "done" /\ result[p].status = "ok"
    /\ Len(pre) = 2
    /\ \E k \in 1..Len(pre) : pre[k].id = op[p].id /\ pre[k].val # op[p].val

\* C9: delete returns true exactly when the id was stored when it was called;
\* it then removes that record and no other; when it returns false the
\* collection is unchanged.
C9_DeleteReportsExistence ==
  \A p \in SeqProcs :
    (op[p].kind = "delete" /\ pc[p] = "done") =>
      /\ result[p].status = "ok"
      /\ result[p].found <=> op[p].id \in IdsOf(pre)
      /\ file.exists
      /\ ReadJson(file) = SelectSeq(pre, LAMBDA r : r.id # op[p].id)

C9_Witness ==
  \E p \in SeqProcs :
    /\ op[p].kind = "delete" /\ pc[p] = "done" /\ result[p].found
    /\ Len(pre) = 2
    /\ pre[1].id = op[p].id

C9_WitnessAbsent ==
  \E p \in SeqProcs :
    /\ op[p].kind = "delete" /\ pc[p] = "done" /\ ~result[p].found
    /\ Len(pre) = 1

\* C10 as stated: every stored goal has progress 100 when its status is
\* achieved and progress 0 when its status is not_started.
C10_StatusProgressAligned ==
  \A g \in GoalIds :
    goals[g].exists =>
      /\ goals[g].status = "achieved" => goals[g].progress = 100
      /\ goals[g].status = "not_started" => goals[g].progress = 0

\* C11 as stated: a stored goal has achieved_at set exactly when its status
\* is achieved.
C11_AchievedAtIffAchieved ==
  \A g \in GoalIds :
    goals[g].exists => (goals[g].achieved_at # 0 <=> goals[g].status = "achieved")

\* C12 as stated: no two active clients store the same NDIS number.
C12_UniqueActiveNdis ==
  \A c, d \in ClientIds :
    (/\ c # d
     /\ clients[c].exists /\ clients[c].active
     /\ clients[d].exists /\ clients[d].active
     /\ clients[c].ndis # 0) => clients[c].ndis # clients[d].ndis

\* a call of handler h was made in this step
CallOf(h) == ecalls' = ecalls + 1 /\ entRes'.op = h

HasActiveGoals(c) ==
  \E g \in GoalIds : goals[g].exists /\ goals[g].client = c /\ ~goals[g].archived

\* C13: deactivateClient of a stored client that has a goal with archived =
\* false fails with a conflict and changes no client; when the client has no
\* such goal it succeeds and the stored client has active = false, every other
\* client being left as it was.
C13_DeactivateGuardedByGoals ==
  [][(CallOf("deactivateClient") /\ clients[entRes'.arg].exists) =>
       LET c == entRes'.arg IN
       IF HasActiveGoals(c)
       THEN entRes'.status = "conflict" /\ clients' = clients
       ELSE /\ entRes'.status = "ok"
            /\ ~clients'[c].active
            /\ clients'[c].exists
            /\ \A d \in ClientIds \ {c} : clients'[d] = clients[d]]_vars

\* a deactivation that succeeded on a client whose goal was archived
C13_Witness ==
  /\ entRes.op = "deactivateClient" /\ entRes.status = "ok"
  /\ ~clients[entRes.arg].active
  /\ \E g \in GoalIds : goals[g].exists /\ goals[g].client = entRes.arg /\ goals[g].archived

\* a deactivation that was refused on an active client with a live goal
C13_WitnessConflict ==
  /\ entRes.op = "deactivateClient" /\ entRes.status = "conflict"
  /\ clients[entRes.arg].active
  /\ HasActiveGoals(entRes.arg)

\* C16 as stated: a goal that is stored with archived = true is never stored
\* with archived = false again.
C16_ArchivedIsOneWay ==
  [][\A g \in GoalIds : goals[g].archived => goals'[g].archived]_vars

\* C17: createGoal with an unknown client fails with not-found, with an
\* inactive client fails with a conflict, and in both cases the goals are
\* unchanged; otherwise exactly one goal is added, for that client, with
\* status not_started, progress 0 and archived false.
C17_CreateGoalChecksClient ==
  [][CallOf("createGoal") =>
       LET c == entRes'.arg IN
       IF ~clients[c].exists
       THEN entRes'.status = "not_found" /\ goals' = goals
       ELSE IF ~clients[c].active
       THEN entRes'.status = "conflict" /\ goals' = goals
       ELSE /\ entRes'.status = "ok"
            /\ \E g \in GoalIds :
                 /\ ~goals[g].exists
                 /\ goals'[g].exists
                 /\ goals'[g].client = c
                 /\ goals'[g].status = "not_started"
                 /\ goals'[g].progress = 0
                 /\ ~goals'[g].archived
                 /\ \A h \in GoalIds \ {g} : goals'[h] = goals[h]]_vars

\* a createGoal that was refused because its client is inactive, with a goal
\* already stored
C17_Witness ==
  /\ entRes.op = "createGoal" /\ entRes.status = "conflict"
  /\ clients[entRes.arg].exists /\ ~clients[entRes.arg].active
  /\ \E g \in GoalIds : goals[g].exists

\* a createGoal that stored its goal
C17_WitnessStored ==
  /\ entRes.op = "createGoal" /\ entRes.status = "ok"
  /\ \E g \in GoalIds :
       goals[g].exists /\ goals[g].client = entRes.arg /\ goals[g].status = "not_started"

\* every id of the array ids is stored in tbl with client c
LinkedToClient(ids, tbl, c) ==
  \A k \in 1..Len(ids) : Stored(tbl, ids[k]) /\ tbl[ids[k]].client = c

\* a call of the activity and shift-note services was made in this step
NoteCall == ncalls' = ncalls + 1

C14_WitnessRejected ==
  /\ entRes.op = "createShiftNote" /\ entRes.status = "conflict"
  /\ clients[entRes.arg].active
  /\ \E a \in ActIds : activities[a].exists /\ activities[a].client # entRes.arg
  /\ \A n \in NoteIds : ~shiftNotes[n].exists

C18_RestoreBringsBackTheBackup ==
  restored # "no" =>
    /\ ReadJson(file) = held
    /\ \A p \in SeqProcs :
         pc[p] = "done" /\ op[p].kind \in {"list", "read"} =>
           /\ result[p].status = IF initialized THEN "ok" ELSE "EUNINIT"
           /\ result[p].status = "ok" /\ op[p].kind = "list" => result[p].recs = held
           /\ result[p].status = "ok" /\ op[p].kind = "read" =>
                /\ result[p].found = (FindIndex(held, op[p].id) > 0)
                /\ result[p].val = ValueOf(held, op[p].id)

\* a read answered after a restore that replaced a different content, cache enabled
C18_Witness ==
  /\ restored = "changed"
  /\ enableCache
  /\ \E p \in SeqProcs :
       /\ pc[p] = "done"
       /\ op[p].kind = "read"
       /\ result[p].status = "ok"
       /\ result[p].found
       /\ result[p].val = ValueOf(held, op[p].id)

\* a list answered after a restore that replaced a different content
C18_WitnessList ==
  /\ restored = "changed"
  /\ \E p \in SeqProcs :
       /\ pc[p] = "done"
       /\ op[p].kind = "list"
       /\ result[p].status = "ok"
       /\ result[p].recs = held
       /\ held # <<>>

\* the step in which caller p makes a call other than initialize and close
GuardedCall(p) ==
  /\ calls' # calls \/ lcalls' # lcalls
  /\ op'[p].kind \notin {"initialize", "close"}

\* C19: every operation other than initialize that is called before the first
\* initialize() or after close() without a new initialize() fails with the uninitialized
\* error and changes no file and no cache entry; once a new initialize() has returned,
\* calls are no longer refused, the file (left alone when it exists) still holds the data
\* stored before close() and reads return it
C19_UninitializedRefusedUntilInitialize ==
  /\ [][\A p \in SeqProcs :
          GuardedCall(p) =>
            IF initialized
            THEN result'[p].status # "EUNINIT"
            ELSE /\ result'[p].status = "EUNINIT"
                 /\ pc'[p] = "done"
                 /\ UNCHANGED <<file, tmp, backup, cache, cacheMap, lockHolder>>]_vars
  /\ [][atClose.closed /\ ~initialized =>
          /\ file.exists => file' = file
          /\ initialized' => ReadJson(file') = atClose.recs]_vars
  /\ [](\A p \in SeqProcs :
          pc[p] = "done" =>
            /\ op[p].kind = "close" => ~initialized
            /\ op[p].kind = "initialize" => initialized
            /\ /\ op[p].kind = "read"
               /\ initialized
               /\ atClose.closed
               /\ ReadJson(file) = atClose.recs
               => /\ result[p].status = "ok"
                  /\ result[p].found = (FindIndex(atClose.recs, op[p].id) > 0)
                  /\ result[p].val = ValueOf(atClose.recs, op[p].id))

\* a write refused after close(), the file keeping the records it held
C19_Witness ==
  /\ atClose.closed
  /\ ~initialized
  /\ atClose.recs # <<>>
  /\ ReadJson(file) = atClose.recs
  /\ \E p \in SeqProcs :
       /\ pc[p] = "done"
       /\ op[p].kind = "write"
       /\ result[p].status = "EUNINIT"

\* a read answered after close() and a new initialize() with the data stored before
C19_WitnessWorksAgain ==
  /\ atClose.closed
  /\ initialized
  /\ atClose.recs # <<>>
  /\ \E p \in SeqProcs :
       /\ pc[p] = "done"
       /\ op[p].kind = "read"
       /\ result[p].status = "ok"
       /\ result[p].found
       /\ result[p].val = ValueOf(atClose.recs, op[p].id)

\* createBackup refused before the first initialize()
C19_WitnessBackupRefused ==
  /\ ~atClose.closed
  /\ ~initialized
  /\ \E p \in SeqProcs :
       /\ pc[p] = "done"
       /\ op[p].kind = "createBackup"
       /\ result[p].status = "EUNINIT"

\* the class of the error a failed storage call rejects with: the Error of
\* lockfile.lock and of fs-extra and the SyntaxError of JSON.parse reach the caller as
\* they are, JsonStorage has no catch clause that wraps them
ErrorClass(st) == IF st = "EPARSE" THEN "SyntaxError" ELSE "Error"

\* C20: a storage call that fails because lock acquisition is exhausted after its
\* retries, or because the collection file cannot be parsed, fails with a StorageError
C20_LockAndParseFailuresAreStorageErrors ==
  \A p \in Procs :
    pc[p] = "done" /\ result[p].status \in {"ELOCKED", "EPARSE"} =>
      ErrorClass(result[p].status) = "StorageError"

\* a write given up after the lock retries were exhausted
C20_ReachedLockExhausted ==
  \E p \in Procs :
    /\ pc[p] = "done"
    /\ result[p].status = "ELOCKED"
    /\ attempts[p] = Retries

\* the step sets the cache entry of i after the write of i replaced the file
CacheSetByWrite(i) ==
  \E p \in AllProcs :
    /\ pc[p] = "cache_update"
    /\ op[p] = [kind |-> "write", id |-> i, val |-> cache'[i]]
    /\ result'[p].status = "ok"
    /\ FindIndex(ReadJson(file), i) > 0

\* the step removes the cache entry of i after the delete of i replaced the file
CacheRemovedByDelete(i) ==
  \E p \in AllProcs :
    /\ pc[p] = "cache_update"
    /\ op[p].kind = "delete"
    /\ op[p].id = i
    /\ cache'[i] = 0
    /\ result'[p].status = "ok"
    /\ FindIndex(ReadJson(file), i) = 0

\* the step is the end of restoreBackup and drops every entry
CacheDroppedByRestore ==
  \E p \in AllProcs :
    /\ pc[p] = "restore_cache"
    /\ cache' = [j \in AllIds |-> 0]

\* the step is a read of i that found the record in the file and keeps it
CacheFilledByRead(i) ==
  \E p \in AllProcs :
    /\ pc[p] = "read_return"
    /\ op[p].kind = "read"
    /\ op[p].id = i
    /\ FindIndex(base[p], i) > 0
    /\ cache'[i] = ValueOf(base[p], i)

\* the step is a call of close() and drops every entry
CacheDroppedByClose ==
  \E p \in AllProcs :
    /\ op'[p].kind = "close"
    /\ lcalls' = lcalls + 1
    /\ cache' = [j \in AllIds |-> 0]

\* until the next call is made, a call that has failed stays failed and one that
\* has succeeded stays so
OutcomeIsFinal ==
  \A p \in AllProcs :
    /\ calls' = calls
    /\ lcalls' = lcalls
    /\ result[p].status # "none"
    => result'[p] = result[p]

\* C21 (as stated): a cache entry changes only when it is set after a successful write
\* of its id, removed after a successful delete of its id, or dropped with all the
\* others by restoreBackup
C21_CacheChangedOnlyByWriteDeleteRestore ==
  [][\A i \in AllIds :
       cache'[i] # cache[i] =>
         CacheSetByWrite(i) \/ CacheRemovedByDelete(i) \/ CacheDroppedByRestore]_vars

\* C21 (amended): a cache entry changes only when it is set after a successful write of
\* its id, set by a read of its id that found the record in the file, removed after a
\* successful delete of its id, or dropped with all the others by restoreBackup or
\* close; a write or delete that fails changes no cache entry
C21_CacheChangedOnlyByWriteReadDeleteRestoreClose ==
  [][/\ \A i \in AllIds :
          cache'[i] # cache[i] =>
            \/ CacheSetByWrite(i)
            \/ CacheFilledByRead(i)
            \/ CacheRemovedByDelete(i)
            \/ CacheDroppedByRestore
            \/ CacheDroppedByClose
     /\ OutcomeIsFinal]_vars

\* a write failed in the locked section while the cache held an entry, which is kept
C21_Witness ==
  \E p \in SeqProcs :
    /\ pc[p] = "done"
    /\ op[p].kind = "write"
    /\ result[p].status = "EIO"
    /\ enableCache
    /\ cache[op[p].id] # 0
    /\ cache[op[p].id] # op[p].val

\* C22: updateGoalProgress called with a progress value and no status stores the status
\* not_started for progress 0, achieved for progress 100 and in_progress in between;
\* called with a status, it validates and stores the supplied status, whatever the
\* progress suggests
C22_StatusSuggestedOnlyWithoutStatus ==
  [][entRes'.op = "updateGoalProgress" /\ ecalls' # ecalls =>
       LET g == entRes'.arg IN
       goals[g].exists =>
         /\ \A pr \in Progress :
              updateGoalProgress(g, Undef, pr) =>
                /\ entRes'.status = "ok"
                /\ goals'[g].progress = pr
                /\ pr = 0 => goals'[g].status = "not_started"
                /\ pr = 100 => goals'[g].status = "achieved"
                /\ pr > 0 /\ pr < 100 => goals'[g].status = "in_progress"
         /\ \A st \in Statuses, pr \in Progress \cup {UndefNum} :
              updateGoalProgress(g, st, pr) =>
                LET newProgress == IF pr # UndefNum THEN pr ELSE goals[g].progress IN
                IF validateGoalProgressAlignment(st, newProgress)
                THEN /\ entRes'.status = "ok"
                     /\ goals'[g].status = st
                     /\ goals'[g].progress = newProgress
                ELSE /\ entRes'.status = "validation"
                     /\ goals' = goals]_vars

\* an on-hold or in-progress goal brought to 100 without a status is stored achieved
C22_Witness ==
  /\ entRes.op = "updateGoalProgress"
  /\ entRes.status = "ok"
  /\ entRes.suggested
  /\ goals[entRes.arg].status = "achieved"
  /\ goals[entRes.arg].progress = 100
  /\ goals[entRes.arg].achieved_at = goals[entRes.arg].updated_at
  /\ goals[entRes.arg].created_at < goals[entRes.arg].updated_at

\* a supplied status is stored although the progress suggests another
C22_WitnessSupplied ==
  /\ entRes.op = "updateGoalProgress"
  /\ entRes.status = "ok"
  /\ ~entRes.suggested
  /\ goals[entRes.arg].status = "on_hold"
  /\ goals[entRes.arg].progress = 100

\* C23: no stored goal has progress_percentage = 100 together with a status other than
\* achieved
C23_FullProgressIsAchieved ==
  \A g \in GoalIds :
    goals[g].exists /\ goals[g].progress = 100 => goals[g].status = "achieved"

\* the same, for the goals the latest successful updateGoalProgress stored
C23_FullProgressIsAchievedByProgressUpdate ==
  entRes.op = "updateGoalProgress" /\ entRes.status = "ok" /\ goals[entRes.arg].progress = 100
    => goals[entRes.arg].status = "achieved"

\* the number of whole calendar days from the day of instant t to day d
DaysFromTo(t, d) == d - (t \div 24)

C24_WitnessOverdue ==
  /\ fnOut.applied
  /\ ~fnOut.value
  /\ fnIn.status = "not_started"
  /\ fnIn.progress = 0
  /\ DaysFromTo(fnIn.today, fnIn.target_date) = 0 - 1

\* the target date 15 days ahead: not yet at risk
C24_WitnessTooEarly ==
  /\ fnOut.applied
  /\ ~fnOut.value
  /\ fnIn.status = "in_progress"
  /\ fnIn.progress = 49
  /\ DaysFromTo(fnIn.today, fnIn.target_date) = 15

\* C25: every update, deactivate or archive operation stores the record under the id
\* and with the created_at it had; no operation changes the id of an existing record,
\* and a newly created record gets an id that is not used in its collection
C25_IdAndCreatedAtNeverChange ==
  /\ [](\A g \in GoalIds : goals[g].exists => goals[g].id = g)
  /\ [][/\ \A g \in GoalIds :
            /\ goals[g].exists =>
                 /\ goals'[g].exists
                 /\ goals'[g].id = goals[g].id
                 /\ goals'[g].created_at = goals[g].created_at
            /\ ~goals[g].exists /\ goals'[g].exists =>
                 /\ CallOf("createGoal")
                 /\ \A h \in GoalIds \ {g} : goals'[h] = goals[h]
       /\ \A c \in ClientIds :
            /\ clients[c].exists => clients'[c].exists
            /\ ~clients[c].exists /\ clients'[c].exists =>
                 /\ CallOf("createClient")
                 /\ \A d \in ClientIds \ {c} : clients'[d] = clients[d]]_vars

\* a goal updated after its creation, with a second goal in the collection
C25_Witness ==
  /\ entRes.op = "updateGoal"
  /\ entRes.status = "ok"
  /\ goals[entRes.arg].id = entRes.arg
  /\ goals[entRes.arg].created_at < goals[entRes.arg].updated_at
  /\ \A g \in GoalIds : goals[g].exists


\* the updated_at of the stored record with id i; 0 when there is none
StoredUpdatedAt(records, i) ==
  IF FindIndex(records, i) > 0 THEN records[FindIndex(records, i)].val ELSE 0

\* C26: the updated_at stored for a record never decreases from one stored version to
\* the next and is never earlier than created_at, for every sequence of successful
\* mutations of the record, overlapping ones included
C26_UpdatedAtNeverDecreases ==
  /\ [](StoredUpdatedAt(committed, StampedId) >= 1)
  /\ [][StoredUpdatedAt(committed', StampedId) >= StoredUpdatedAt(committed, StampedId)]_vars

\* two handlers stamped in one order and stored in the other: both writes returned,
\* the clock is at 2 and the stored updated_at is 1
C26_OlderStampStoredLast ==
  /\ \A p \in Procs : op[p].kind = "write" /\ pc[p] = "done" /\ result[p].status = "ok"
  /\ \E p \in Procs : op[p].val = 2
  /\ StoredUpdatedAt(committed, StampedId) = 1
  /\ committed = ReadJson(file)

\* the records of arr in ascending (dir = 1) or descending (dir = -1) order of name, records
\* of equal name in the order they have in arr
SortedByName(arr, dir) ==
  CHOOSE out \in [1..Len(arr) -> Range(arr)] :
    /\ Range(out) = Range(arr)
    /\ \A j, k \in 1..Len(arr) :
         j < k => \/ dir * out[j].name < dir * out[k].name
                  \/ out[j].name = out[k].name /\ out[j].id < out[k].id

\* the list the statement describes: the records that equal the filter on its defined
\* fields, ordered, cut to the positions offset .. offset+limit-1
DescribedList(records, filter, options) ==
  LET matching == ArrayFilter(records, {r \in Range(records) :
                    /\ filter.active # Undef => r.active = (filter.active = "true")
                    /\ filter.name # UndefNum => r.name = filter.name})
      ordered == IF options.sortBy = "name" /\ \A r \in Range(matching) : r.name # UndefNum
                 THEN SortedByName(matching, IF options.sortOrder = "desc" THEN 0 - 1 ELSE 1)
                 ELSE matching
      offset == IF options.offset = UndefNum THEN 0 ELSE options.offset
      last == IF options.limit = UndefNum THEN Len(ordered) ELSE offset + options.limit
  IN [list |-> [k \in 1..(IF last > Len(ordered)
                           THEN (IF Len(ordered) > offset THEN Len(ordered) - offset ELSE 0)
                           ELSE (IF last > offset THEN last - offset ELSE 0)) |->
                  ordered[offset + k]],
      count |-> Len(matching)]

\* C28: list(collection, filter, options) returns the stored records that equal the filter
\* on every defined filter field, ordered by sortBy in sortOrder (ascending by default)
\* when the sort values are non-null and in stored order otherwise, restricted to the
\* positions offset .. offset+limit-1 of that ordering; count(collection, filter) is the
\* length of the same list without limit and offset
C28_ListFiltersSortsAndPaginates ==
  fnOut.applied /\ "options" \in DOMAIN fnIn =>
    fnOut.value = DescribedList(fnIn.records, fnIn.filter, fnIn.options)

\* list with limit 0 returned a record
C28_LimitZeroReturnsRecords ==
  /\ fnOut.applied
  /\ "options" \in DOMAIN fnIn
  /\ fnIn.options.limit = 0
  /\ fnOut.value.list # <<>>

\* C27: an entity list operation applies limit and offset after all filtering, the
\* in-memory search included: listClients returns the records at the positions
\* offset .. offset+limit-1 of the sorted list of all clients that match the whole filter
C27_PaginationAfterAllFilters ==
  fnOut.applied /\ "search" \in DOMAIN fnIn.filter =>
    LET f == fnIn.filter
        found == IF f.search.given
                 THEN ArrayFilter(fnIn.records,
                                  {r \in Range(fnIn.records) : r.name \in f.search.names})
                 ELSE fnIn.records
    IN fnOut.value =
         DescribedList(found, [active |-> f.active, name |-> UndefNum],
                       [sortBy |-> "name", sortOrder |-> "asc", limit |-> f.limit,
                        offset |-> f.offset]).list

\* a page of one record was asked for, a client matches the search, and none is returned
C27_MatchingClientMissedByThePage ==
  /\ fnOut.applied
  /\ "search" \in DOMAIN fnIn.filter
  /\ fnIn.filter.search.given
  /\ fnIn.filter.limit = 1
  /\ fnIn.filter.offset = UndefNum
  /\ fnIn.filter.active = Undef
  /\ \E r \in Range(fnIn.records) : r.name \in fnIn.filter.search.names
  /\ fnOut.value = <<>>

\* the latest call is a successful call of operation o
Did(o) == entRes'.op = o /\ ecalls' # ecalls /\ entRes'.status = "ok"

\* no call removes a client or a goal
IdsOnlyGrow ==
  /\ \A c \in ClientIds : clients[c].exists => clients'[c].exists
  /\ \A g \in GoalIds : goals[g].exists => goals'[g].exists

\* C29 as stated: no entity-service operation removes a record, and deactivation or
\* archiving only changes the active or archived flag of the record
C29_SoftDeleteChangesOnlyTheFlag ==
  [][/\ IdsOnlyGrow
     /\ Did("deactivateClient") =>
          /\ clients' = [clients EXCEPT ![entRes'.arg].active = FALSE]
          /\ goals' = goals
     /\ Did("archiveGoal") =>
          /\ goals' = [goals EXCEPT ![entRes'.arg].archived = TRUE]
          /\ clients' = clients]_vars

\* C29: no entity-service operation removes a record: the set of ids stored in each
\* collection only grows, and deactivation or archiving only changes the active or
\* archived flag and the updated_at of the record
C29_SoftDeleteChangesOnlyTheFlagAndUpdatedAt ==
  [][/\ IdsOnlyGrow
     /\ Did("deactivateClient") =>
          /\ clients' = [clients EXCEPT ![entRes'.arg].active = FALSE]
          /\ goals' = goals
     /\ Did("archiveGoal") =>
          /\ \E t \in 1..(MaxNow + 1) :
               goals' = [goals EXCEPT ![entRes'.arg].archived = TRUE,
                                      ![entRes'.arg].updated_at = t]
          /\ clients' = clients]_vars

\* a goal archived after it was created: the flag is set and updated_at is later than
\* created_at
C29_Witness ==
  /\ entRes.op = "archiveGoal"
  /\ entRes.status = "ok"
  /\ goals[entRes.arg].exists
  /\ goals[entRes.arg].archived
  /\ goals[entRes.arg].updated_at > goals[entRes.arg].created_at

\* a client deactivated after its goal was archived is still stored
C29_WitnessDeactivated ==
  /\ entRes.op = "deactivateClient"
  /\ entRes.status = "ok"
  /\ clients[entRes.arg].exists
  /\ ~clients[entRes.arg].active

\* p is inside a call of initialize()
Initializing(p) == op[p].kind = "initialize" /\ pc[p] # "done"

\* C30: initialize() is idempotent and non-destructive: called on an initialized storage
\* it returns at once and changes nothing; otherwise it creates the empty collection only
\* where the collection file is absent and leaves the records of an existing collection,
\* as after close(), unchanged
C30_InitializeIdempotentAndNonDestructive ==
  [][\A p \in SeqProcs :
       /\ op'[p].kind = "initialize" /\ lcalls' # lcalls /\ initialized =>
            /\ pc'[p] = "done"
            /\ result'[p].status = "ok"
            /\ UNCHANGED <<file, initialized, cache, cacheMap, backup>>
       /\ Initializing(p) =>
            /\ file.exists => file' = file
            /\ ~file.exists => file' \in {file, WriteJson(<<>>)}
            /\ backup' = backup
       /\ Initializing(p) /\ ~Initializing(p)' =>
            /\ initialized'
            /\ file.exists
            /\ result'[p].status = "ok"
            /\ atClose.closed => ReadJson(file') = atClose.recs]_vars

\* initialize() has returned after close(), the collection file holds the records
\* written before close()
C30_Witness ==
  /\ atClose.closed
  /\ initialized
  /\ atClose.recs # <<>>
  /\ ReadJson(file) = atClose.recs
  /\ \E p \in SeqProcs :
       /\ pc[p] = "done"
       /\ op[p].kind = "initialize"
       /\ result[p].status = "ok"

\* initialize() has created the empty collection in a new data directory
C30_WitnessCreated ==
  /\ ~atClose.closed
  /\ initialized
  /\ calls = 0
  /\ file = WriteJson(<<>>)
  /\ \E p \in SeqProcs : op[p].kind = "initialize" /\ pc[p] = "done"

\* initialize() called on an initialized storage that holds records has returned
C30_WitnessAgain ==
  /\ ~atClose.closed
  /\ initialized
  /\ lcalls >= 2
  /\ calls >= 1
  /\ ReadJson(file) # <<>>
  /\ \E p \in SeqProcs : op[p].kind = "initialize" /\ pc[p] = "done"

\* the number of elements of a sequence that lie in a set
RECURSIVE NumberIn(_, _)
NumberIn(arr, S) ==
  IF arr = <<>> THEN 0
  ELSE (IF Head(arr) \in S THEN 1 ELSE 0) + NumberIn(Tail(arr), S)

RECURSIVE SumOver(_, _)
SumOver(f, S) ==
  IF S = {} THEN 0
  ELSE LET x == CHOOSE y \in S : TRUE IN f[x] + SumOver(f, S \ {x})

\* C31: getDashboard reports total_clients = number of client records, active_clients =
\* number of clients with active = true, total_active_goals = number of goals with
\* archived = false, goals_by_status counts that sum to total_active_goals and a
\* goals_at_risk count equal to the length of the returned at-risk list; the call changes
\* no collection
C31_DashboardCountsAgree ==
  /\ [](fnOut.applied /\ "allGoals" \in DOMAIN fnIn =>
         LET d == fnOut.value IN
         /\ d.summary.total_clients = Len(fnIn.allClients)
         /\ d.summary.active_clients = NumberIn(fnIn.allClients, {c \in Range(fnIn.allClients) : c.active})
         /\ d.summary.total_active_goals =
              NumberIn(fnIn.allGoals, {g \in Range(fnIn.allGoals) : ~g.archived})
         /\ SumOver(d.summary.goals_by_status, Statuses) = d.summary.total_active_goals
         /\ d.summary.goals_at_risk = Len(d.goals_at_risk))
  /\ [][fnIn' = fnIn /\ file' = file /\ cache' = cache]_vars

\* a dashboard over archived and open goals, one of them at risk
C31_Witness ==
  /\ fnOut.applied
  /\ "allGoals" \in DOMAIN fnIn
  /\ \E k \in 1..Len(fnIn.allGoals) : fnIn.allGoals[k].archived
  /\ fnOut.value.summary.total_active_goals = 1
  /\ fnOut.value.summary.goals_at_risk = 1
  /\ fnOut.value.summary.active_clients < fnOut.value.summary.total_clients

\* C32: there is no atomicity across collections: a createGoal that checked its client
\* as active commits its record whatever has become of the client since, so that a goal
\* is stored for a client a concurrent deactivateClient has already made inactive
C32_CreateCommitsOnItsStaleCheck ==
  [][\A p \in Procs :
       pc[p] = "createGoal_write" /\ pc'[p] = "done" =>
         /\ result'[p].status = "ok"
         /\ \E g \in GoalIds :
              /\ ~goals[g].exists
              /\ goals'[g].exists
              /\ goals'[g].client = op[p].id
              /\ ~goals'[g].archived]_vars

\* the createGoal returned last, after a deactivateClient of its client had returned: an
\* open goal is stored for an inactive client
C32_Witness ==
  /\ entRes.op = "createGoal"
  /\ entRes.status = "ok"
  /\ ~clients[entRes.arg].active
  /\ \E q \in Procs :
       /\ op[q] = [kind |-> "deactivateClient", id |-> entRes.arg, val |-> 0]
       /\ pc[q] = "done"
       /\ result[q].status = "ok"
  /\ \E g \in GoalIds : goals[g].exists /\ goals[g].client = entRes.arg /\ ~goals[g].archived

\* p has run handler k on record i and it succeeded
Succeeds(p, k, i) ==
  pc[p] = "done" /\ op[p].kind = k /\ op[p].id = i /\ result[p].status = "ok"

\* C36: when an updateGoal and an updateGoalProgress of one goal that change different
\* fields run concurrently and both succeed, the stored goal contains both changes
C36_BothConcurrentUpdatesKept ==
  \A g \in GoalIds :
    \A p, q \in Procs :
      Succeeds(p, "updateGoalProgress", g) /\ Succeeds(q, "updateGoal", g) =>
        goals[g].progress = op[p].val /\ goals[g].archived

\* both updates succeeded and the goal is archived with its old progress
C36_ProgressUpdateLost ==
  \E g \in GoalIds :
    \E p, q \in Procs :
      /\ Succeeds(p, "updateGoalProgress", g)
      /\ Succeeds(q, "updateGoal", g)
      /\ goals[g].archived
      /\ goals[g].progress = 0

\* C37: of two concurrent createClient calls with the same ndis_number at most one
\* succeeds, so two active clients with that number are never both stored
C37_OneActiveClientPerNdisNumber ==
  /\ \A c, d \in ClientIds :
       /\ c # d
       /\ clients[c].exists /\ clients[c].active
       /\ clients[d].exists /\ clients[d].active
       /\ clients[c].ndis # 0
       => clients[c].ndis # clients[d].ndis
  /\ \A p, q \in Procs :
       /\ p # q
       /\ op[p].kind = "createClient" /\ op[q].kind = "createClient"
       /\ op[p].val = op[q].val
       /\ pc[p] = "done" /\ pc[q] = "done"
       => ~(result[p].status = "ok" /\ result[q].status = "ok")

\* two createClient calls with the same number have both succeeded
C37_BothCreatesSucceeded ==
  \E p, q \in Procs :
    /\ p # q
    /\ op[p].kind = "createClient" /\ op[q].kind = "createClient"
    /\ op[p].val = op[q].val
    /\ pc[p] = "done" /\ pc[q] = "done"
    /\ result[p].status = "ok" /\ result[q].status = "ok"

\* C33: with the operations applied one at a time, after any sequence of createGoal,
\* updateGoal, archiveGoal, updateClient and deactivateClient no client with
\* active = false has a goal with archived = false
C33_NoOpenGoalOfInactiveClient ==
  \A c \in ClientIds, g \in GoalIds :
    /\ clients[c].exists /\ ~clients[c].active
    /\ goals[g].exists /\ goals[g].client = c
    => goals[g].archived

\* an updateClient call has just left an inactive client with an open goal
C33_UpdateClientDeactivatedWithOpenGoal ==
  /\ entRes.op = "updateClient" /\ entRes.status = "ok"
  /\ ~clients[entRes.arg].active
  /\ \E g \in GoalIds :
       goals[g].exists /\ goals[g].client = entRes.arg /\ ~goals[g].archived

\* a delete of id i has returned true, the file is without the id and no write or delete
\* of the id is in flight
DeletedAndNotRewritten(i) ==
  /\ file.exists
  /\ i \notin IdsOf(ReadJson(file))
  /\ \A q \in Procs : ~(Mutating(q) /\ op[q].id = i)
  /\ \E p \in Procs :
       /\ op[p].kind = "delete" /\ op[p].id = i /\ pc[p] = "done"
       /\ result[p].status = "ok" /\ result[p].found

\* C34: once delete(collection, id) has returned true and no write of the id followed, a
\* read (and so exists) that starts afterwards does not return the record, even when a
\* read of the same id was in flight while the delete ran
C34_ReadAfterDeleteIsAbsent ==
  [][calls' # calls =>
       \A q \in Procs :
         /\ pc[q] \in {"idle", "done"}
         /\ \A r \in Procs \ {q} : pc'[r] = pc[r] /\ op'[r] = op[r]
         /\ op'[q].kind = "read"
         /\ pc'[q] = "done"
         /\ result'[q].status = "ok"
         /\ DeletedAndNotRewritten(op'[q].id)
         => ~result'[q].found]_vars

\* a read has returned the record of an id that is deleted and not rewritten
C34_DeletedRecordRead ==
  \E q \in Procs :
    /\ op[q].kind = "read" /\ pc[q] = "done"
    /\ result[q].status = "ok" /\ result[q].found
    /\ DeletedAndNotRewritten(op[q].id)
    /\ cache[op[q].id] # 0

\* C35: once restoreBackup has returned and every call that was in flight during it has
\* finished, the collection file holds exactly the records of the snapshot and read
\* agrees with list for every id, even when a write, delete or read overlapped the restore
C35_RestoredContentIsTheSnapshot ==
  /\ restored # "no"
  /\ \E p \in Procs :
       op[p].kind = "restoreBackup" /\ pc[p] = "done" /\ result[p].status = "ok"
  /\ \A q \in Procs : pc[q] \in {"idle", "done"}
  => /\ file.exists
     /\ ReadJson(file) = ReadJson(backup)
     /\ \A i \in LifeIds :
          enableCache /\ cache[i] # 0 => cache[i] = ValueOf(ReadJson(file), i)

\* the restore returned, nothing is in flight, and the file is not the snapshot
C35_WriteOverTheSnapshot ==
  /\ restored # "no"
  /\ \E p \in Procs :
       op[p].kind = "restoreBackup" /\ pc[p] = "done" /\ result[p].status = "ok"
  /\ \A q \in Procs : pc[q] \in {"idle", "done"}
  /\ file.exists
  /\ ReadJson(file) # ReadJson(backup)

\* the restore returned, nothing is in flight, and the cache holds a value the file lacks
C35_CacheBesideTheSnapshot ==
  /\ restored # "no"
  /\ \E p \in Procs :
       op[p].kind = "restoreBackup" /\ pc[p] = "done" /\ result[p].status = "ok"
  /\ \A q \in Procs : pc[q] \in {"idle", "done"}
  /\ file.exists
  /\ ReadJson(file) = ReadJson(backup)
  /\ \E i \in LifeIds : enableCache /\ cache[i] # 0 /\ cache[i] # ValueOf(ReadJson(file), i)

\* the updateGoalProgress call in flight at p will fail: its goal is absent or the new
\* status and progress are not aligned
WillFail(p) ==
  /\ op[p].kind = "updateGoalProgress"
  /\ entRes.status = "pending"
  /\ \/ /\ pc[p] = "read_return"
        /\ LET k == FindIndex(base[p], op[p].id) IN
             \/ k = 0
             \/ /\ k > 0
                /\ LET new == NewGoalState(p, base[p][k].val) IN
                     ~validateGoalProgressAlignment(new.status, new.progress)
     \/ /\ pc[p] = "done"
        /\ result[p].status = "ok"
        /\ \/ ~result[p].found
           \/ /\ result[p].found
              /\ LET new == NewGoalState(p, result[p].val) IN
                   ~validateGoalProgressAlignment(new.status, new.progress)

FailedOutcome ==
  entRes.op = "updateGoalProgress" /\ entRes.status \in {"not_found", "validation"}

\* C38 as stated: an entity-service call that fails with a validation or not-found
\* failure has written nothing: the collection file and the read cache hold the same
\* records after the failed call as before it
C38_FailedCallChangesNothing ==
  /\ [](FailedOutcome =>
          /\ \A p \in SeqProcs : pc[p] = "done"
          /\ file.exists /\ ReadJson(file) = pre /\ tmp = NoFile)
  /\ [][\A p \in SeqProcs : WillFail(p) => file' = file /\ cache' = cache]_vars

\* C38 amended: the failed call has written nothing, the collection file holds the same
\* records as before it, and the only change of the read cache is the entry the call's
\* own read sets for the record it found in the file
C38_FailedCallWritesNothing ==
  /\ [](FailedOutcome =>
          /\ \A p \in SeqProcs : pc[p] = "done"
          /\ file.exists /\ ReadJson(file) = pre /\ tmp = NoFile
          /\ \A i \in AllIds :
               enableCache /\ cache[i] # 0 => cache[i] = ValueOf(ReadJson(file), i))
  /\ [][\A p \in SeqProcs :
          WillFail(p) =>
            /\ file' = file
            /\ \A i \in AllIds :
                 cache'[i] # cache[i] =>
                   /\ i = op[p].id
                   /\ cache[i] = 0
                   /\ cache'[i] = ValueOf(ReadJson(file), i)]_vars

\* the first call failed its alignment check and its read has filled the cache
C38_Witness ==
  /\ entRes.op = "updateGoalProgress"
  /\ entRes.status = "validation"
  /\ calls = 1
  /\ enableCache
  /\ cache[entRes.arg] # 0
  /\ ReadJson(file) = pre

\* C39: at every point after any sequence of writes and deletes, concurrent writes of
\* one id included, no two records of the collection file have the same id
C39_NoTwoRecordsShareAnId ==
  file.exists =>
    \A j, k \in 1..Len(ReadJson(file)) :
      j # k => ReadJson(file)[j].id # ReadJson(file)[k].id

\* a write of an id the file already held has replaced the file while another write of
\* the same id waits for the lock
C39_Witness ==
  \E p, q \in Procs :
    /\ p # q
    /\ op[p].kind = "write" /\ op[q].kind = "write" /\ op[p].id = op[q].id
    /\ pc[p] = "release" /\ result[p].status = "ok"
    /\ op[p].id \in IdsOf(base[p])
    /\ pc[q] = "lock_acquire" /\ attempts[q] > 0
    /\ file.exists
    /\ Len(ReadJson(file)) = 1
    /\ ReadJson(file)[1] = Rec(op[p].id, op[p].val)

====
